---- MODULE Spec2Model ----
(***************************************************************************)
(* Visioneer: the image-generation flows.                                  *)
(*                                                                         *)
(*   new_project        (app/main/routes.py): one call of                  *)
(*       generate_image_with_nano_banana per prompt on a                   *)
(*       ThreadPoolExecutor(max_workers=4), results collected with         *)
(*       as_completed, sorted by index, turned into image records, and     *)
(*       replaced by four demo images when none was produced.              *)
(*   generate_images    (app/services/image_generation_service.py): the    *)
(*       sequential per-provider loops.                                    *)
(*   generate_moodboard (app/api/moodboard.py): calls generate_images      *)
(*       with provider 'openai' and answers 500 on an empty list.          *)
(*                                                                         *)
(* A prompt is modelled by its position in the prompt list (0-based, as    *)
(* enumerate numbers it); an image record keeps the fields the flows       *)
(* differ in: prompt, index, provider.                                     *)
(***************************************************************************)
EXTENDS Integers, Sequences, FiniteSets, TLC

\* Longest prompt list explored (the orchestration block takes any list).
MaxPrompts == 4
\* Longest prompt list explored against the two-answer backend of SpecPool.
MaxPoolPrompts == 5
\* Most inline image parts one Gemini response carries.
MaxParts == 2
\* Longest prompt list new_project is called twice with.
MaxTwicePrompts == 3
\* Longest prompt list explored with every kind of provider exception.
MaxFaultPrompts == 3
\* Most moodboard documents ever created in the store.
MaxBoards == 1
\* Seconds the clock is followed after each point it is set to, and how
\* often it skips a whole cleanup interval.
MaxTicks == 3
MaxJumps == 1
\* Largest limit and window (seconds) a rate-limit policy has.
MaxLimit == 2
MaxWindow == 2
\* Longest time-to-live (seconds) an entry is cached with.
MaxTtl == 2
\* Most usage records track_usage returns, and how often the clock skips a
\* whole retention window.
MaxRecords == 2
MaxRetire == 1
\* Most requests that pass through rate_limit_check.
MaxChecks == 4
\* Most calls of is_allowed the two request threads make together.
MaxCalls == 3
\* Most conversational editing sessions started.
MaxSessions == 2
\* Most lines of a model response, and the largest expected_count.
MaxLines == 3
MaxExpected == 3

\* ThreadPoolExecutor(max_workers=4)
max_workers == 4
\* validate_image_count: 4 <= count <= 12
MinImageCount == 4
MaxImageCount == 12
\* validate_story_input: len(story.strip()) < 50, len(story) > 2000
MinStoryLength == 50
MaxStoryLength == 2000
\* RateLimiter: self.cleanup_interval = 300
cleanup_interval == 300
\* UsageTracker: setex(key, 86400 * 30, ...), days: int = 30
SecondsPerDay == 86400
RetentionDays == 30

VARIABLES
    flow,        \* which entry point runs
    provider,    \* generate_images' provider argument
    configured,  \* the provider's API key / client library is available
    n,           \* len(prompts)
    backend,     \* per prompt, the answers the Gemini image backend can give
                 \* in this run
    faults,      \* the kinds of exception a provider request can raise
    task,        \* new_project: state of each submitted future
    outcome,     \* new_project: what each finished future holds
    results,     \* new_project: the list filled by the as_completed loop
    arrival,     \* new_project: results as as_completed delivered them,
                 \* kept from before the in-place sort
    images,      \* the image list being built / returned
    calls,       \* provider requests issued per prompt
    i_seq,       \* generate_images: loop position
    warning,     \* new_project: flash(..., 'warning') was issued
    response,    \* what the entry point answered
    pc,          \* position of the calling flow
    errors,      \* kinds of exception raised below the entry points so far
    escaped,     \* entry points an exception propagated out of
    run,         \* which call of new_project this is (first or second)
    first,       \* what the first call of new_project ended with
    requests,    \* the JSON bodies clients post to /generate-moodboard
    session,     \* the Flask session of the client
    store,       \* the 'moodboards' collection: document per id
    created_by,  \* per id, the uid whose generation request created it
    created_images, \* per id, the images list it was created with
    logged_out,  \* api_logout succeeded and no login has succeeded since
    last,        \* the request handled last and how it was answered
    now,         \* time.time(), in whole seconds since the process started
    policies,    \* per key, the (limit, window) its callers pass
    limiter_requests, \* RateLimiter.requests: timestamps kept per key
    last_cleanup,     \* RateLimiter.last_cleanup
    granted,     \* per key, the timestamps is_allowed answered True at
                 \* that were inside the key's own window at the latest one
    verdict,     \* the rate-limited request handled last, with the number
                 \* of granted timestamps inside its window when it came
    cache,       \* CacheManager.cache
    ttl,         \* CacheManager.ttl: expiry time per key
    last_set,    \* per key, the value and expiry of the latest set, and
                 \* whether delete or clear has been called since
    cache_last,  \* the cache operation performed last and its result
    redis_client,   \* UsageTracker.redis_client: "redis", or "None" when
                    \* the connection failed at construction
    redis_data,     \* the keys set in Redis: key, value, expiry time
    memory_store,   \* UsageTracker._memory_store: records per user
    tracked,        \* every record track_usage has returned, in order
    usage_last,     \* the ledger operation performed last and its result
    passed,         \* per address and endpoint, the times rate_limit_check
                    \* let a request through, inside the endpoint's window
    checks,         \* requests rate_limit_check has handled
    checked,        \* the request rate_limit_check handled last
    thread_pc,      \* per request thread, its position inside is_allowed
    thread_local,   \* per request thread, current_time and the filtered
                    \* list it has built but not yet stored
    thread_calls,   \* calls of is_allowed begun by the threads
    appended,       \* the timestamps appended by calls answered True
    active_sessions,   \* conversational_editing.active_sessions: its keys
    issued,         \* the session ids start-session has returned
    ended,          \* the issued ids end-session has been called with
    edit_last,      \* the editing request handled last and its answer
    response_text,  \* _parse_image_prompts: the response, as its lines
    expected_count, \* _parse_image_prompts: the number of prompts wanted
    parsed          \* what _parse_image_prompts returned

\* what a run is started with and never changes
inputs == <<flow, provider, configured, n, backend, faults>>

\* the record of raised and escaped exceptions
faultvars == <<errors, escaped>>

\* the record of a repeated call
twice == <<run, first>>

\* the HTTP API: session, document store, last exchange
apivars == <<requests, session, store, created_by, created_images,
             logged_out, last>>

\* the rate limiter
limitervars == <<policies, limiter_requests, last_cleanup, granted, verdict>>

\* the cache
cachevars == <<cache, ttl, last_set, cache_last>>

\* clock, rate limiter and cache
utilvars == <<now, limitervars, cachevars>>

\* the usage ledger
ledgervars == <<redis_client, redis_data, memory_store, tracked, usage_last>>

\* the record of rate_limit_check
middlewarevars == <<passed, checks, checked>>

\* two request threads inside is_allowed
threadvars == <<thread_pc, thread_local, thread_calls, appended>>

\* conversational editing sessions
editvars == <<active_sessions, issued, ended, edit_last>>

\* prompt parsing
parsevars == <<response_text, expected_count, parsed>>

\* the services beside the generation flows
servicevars == <<ledgervars, middlewarevars, threadvars, editvars,
                 parsevars>>

\* the state of the other components
elsewhere == <<apivars, utilvars, servicevars>>

\* the image-generation flows
flowvars == <<inputs, task, outcome, results, arrival, images, calls, i_seq,
              warning, response, pc, faultvars, twice>>

vars == <<inputs, task, outcome, results, arrival, images, calls, i_seq,
          warning, response, pc, faultvars, twice, elsewhere>>

MaxOf(S) == CHOOSE m \in S : \A k \in S : k <= m
Slots ==
    0 .. (MaxOf({MaxPrompts, MaxPoolPrompts, MaxTwicePrompts,
                 MaxFaultPrompts}) - 1)
Prompts == 0 .. (n - 1)

Flows == {"new_project", "generate_images", "generate_moodboard"}
SupportedProviders == {"openai", "gemini", "replicate"}
ProviderNames == SupportedProviders \cup {"other"}

\* The dict generate_image_with_nano_banana returns: success False with no
\* image on an exception, success True with one PIL image per inline part.
NanoBananaResults ==
    {[success |-> FALSE, images |-> 0]}
        \cup {[success |-> TRUE, images |-> k] : k \in 0 .. MaxParts}

\* One request of a sequential loop: an image appended, or the slot skipped.
SeqResults ==
    {[success |-> FALSE, images |-> 0], [success |-> TRUE, images |-> 1]}

NoResult == [success |-> FALSE, images |-> -1]

----------------------------------------------------------------------------
(* Pure helpers *)

\* results.sort(key=lambda x: x[0]) : insertion into an index-ordered list
RECURSIVE InsertByIndex(_, _)
InsertByIndex(r, s) ==
    IF s = <<>> THEN <<r>>
    ELSE IF r.index < Head(s).index THEN <<r>> \o s
    ELSE <<Head(s)>> \o InsertByIndex(r, Tail(s))

RECURSIVE SortedByIndex(_)
SortedByIndex(s) ==
    IF s = <<>> THEN <<>>
    ELSE InsertByIndex(Head(s), SortedByIndex(Tail(s)))

\* mutant: the sort is left out
SortResultsList_Unsorted(s) == s

SortResultsList(s) == SortedByIndex(s)

\* mutant: the index is numbered from one
NextImageIndex_OneBased(imgs, j) == Len(imgs) + 1

\* mutant: the index is the position inside one response (enumerate's j)
NextImageIndex_WithinResult(imgs, j) == j

\* 'index': len(images)
NextImageIndex(imgs, j) == Len(imgs)

\* for j, img in enumerate(result['images']): images.append({...})
RECURSIVE AppendParts(_, _, _, _)
AppendParts(imgs, slot, j, k) ==
    IF j >= k THEN imgs
    ELSE AppendParts(
             Append(imgs, [prompt |-> slot,
                           index |-> NextImageIndex(imgs, j),
                           provider |-> "gemini-2.5-flash-image"]),
             slot, j + 1, k)

\* if result['success'] and result['images']
SlotProduced(result) == result.success /\ result.images > 0

\* mutant: the first failed slot ends the loop
RECURSIVE ProcessResults_Abort(_, _)
ProcessResults_Abort(imgs, rs) ==
    IF rs = <<>> THEN imgs
    ELSE IF SlotProduced(Head(rs).result)
         THEN ProcessResults_Abort(
                  AppendParts(imgs, Head(rs).index, 0, Head(rs).result.images),
                  Tail(rs))
         ELSE imgs

\* for index, prompt, result in results: ... else: logger.warning(...)
RECURSIVE ProcessResults(_, _)
ProcessResults(imgs, rs) ==
    IF rs = <<>> THEN imgs
    ELSE IF SlotProduced(Head(rs).result)
         THEN ProcessResults(
                  AppendParts(imgs, Head(rs).index, 0, Head(rs).result.images),
                  Tail(rs))
         ELSE ProcessResults(imgs, Tail(rs))

\* the four picsum placeholders, prompts synthesised from mood and genre
DemoImages ==
    [k \in 1 .. 4 |-> [prompt |-> -k, index |-> k - 1, provider |-> "demo"]]

\* mutant: fall back whenever fewer than four images came out
NeedsFallback_FewerThanFour(imgs) == Len(imgs) < 4

\* if not images:
NeedsFallback(imgs) == imgs = <<>>

\* mutant: a thread per submitted item
WorkerAvailable_Unbounded == TRUE

\* ThreadPoolExecutor starts a queued work item only on an idle worker
RunningTasks == {i \in Prompts : task[i] = "running"}
WorkerAvailable == Cardinality(RunningTasks) < max_workers

\* the work queue is FIFO: the next item is the earliest submitted one
QueueHead(i) ==
    /\ task[i] = "queued"
    /\ \A j \in Prompts : task[j] = "queued" => i <= j

\* mutant: a failed request is put back on the queue
FinishedStatus_Retry(result) == IF result.success THEN "done" ELSE "queued"

\* what a future becomes when generate_single_image returns
FinishedStatus(result) == "done"

\* mutant: the collection loop stops at the first delivered result
AllCollected_First == \E i \in Prompts : task[i] = "collected"

\* as_completed is exhausted once every submitted future has been yielded
AllCollected == \A i \in Prompts : task[i] = "collected"

\* what a provider request raises: quota exhausted, network failure, a
\* payload that cannot be decoded
ProviderErrors == {"quota", "network", "malformed_payload"}

\* raise ValueError("... API key not configured") / ("Unsupported provider")
ConfigErrors == {"missing_api_key", "unsupported_provider"}

\* mutant: the handlers catch ValueError only
ExceptException_ValueErrorOnly(e) == e \in ConfigErrors

\* except Exception as e: every exception listed above derives from Exception
ExceptException(e) == e \in ProviderErrors \cup ConfigErrors

\* the exception generate_images meets before any request is issued
DispatchError ==
    IF provider \notin SupportedProviders THEN "unsupported_provider"
    ELSE IF ~configured THEN "missing_api_key"
    ELSE "none"

\* nothing recorded from an earlier call of new_project
NoFirst == [images |-> <<>>, produced |-> {}, warning |-> FALSE,
            arrival |-> <<>>]

\* the prompts that have an image in the list
SlotPattern(imgs) == {imgs[k].prompt : k \in 1 .. Len(imgs)}

\* 'provider': the tag each sequential loop writes
ProviderTag(p) == IF p = "gemini" THEN "gemini-2.5-flash" ELSE p

\* on a failed request the sequential loops `continue`
SeqContinues(result) == TRUE

----------------------------------------------------------------------------
(* The HTTP API: data *)

Users == {"u1", "u2"}
BoardIds == 1 .. MaxBoards

NoSession == [authenticated |-> FALSE, user_id |-> "none"]
NoBoard == [user_id |-> "none", status |-> "none", images |-> <<>>]

\* the images list generate_images hands to the endpoint
GeneratedImages == <<"image0", "image1">>

\* A request body of /generate-moodboard.  A story is kept as its length
\* and its length once stripped, image_count as its JSON type and value.
Stories ==
    {[len |-> k, stripped |-> k] :
        k \in {0, MinStoryLength - 1, MinStoryLength, MaxStoryLength,
               MaxStoryLength + 1}}
      \cup {[len |-> MinStoryLength + 10, stripped |-> MinStoryLength - 10]}
Styles == {"cinematic", "NOIR", "watercolor"}
ImageCounts ==
    {[type |-> "int", value |-> k] :
        k \in {MinImageCount - 1, MinImageCount, MaxImageCount,
               MaxImageCount + 1}}
      \cup {[type |-> "str", value |-> MinImageCount]}
AspectRatios == {"16:9", "3:2"}
RequiredFields == {"story", "style", "image_count", "aspect_ratio"}

AllRequestData ==
    [missing : {{}, {"story"}, {"image_count", "aspect_ratio"}},
     story : Stories, style : Styles, image_count : ImageCounts,
     aspect_ratio : AspectRatios]

NoData == [missing |-> RequiredFields, story |-> [len |-> 0, stripped |-> 0],
           style |-> "", image_count |-> [type |-> "int", value |-> 0],
           aspect_ratio |-> ""]

\* the test suite's valid body
ValidData == [missing |-> {}, story |-> [len |-> MinStoryLength,
                                         stripped |-> MinStoryLength],
              style |-> "cinematic",
              image_count |-> [type |-> "int", value |-> MinImageCount],
              aspect_ratio |-> "16:9"]

\* the test suite's invalid body: every field wrong
InvalidData == [missing |-> {}, story |-> [len |-> MinStoryLength - 1,
                                           stripped |-> MinStoryLength - 1],
                style |-> "watercolor",
                image_count |-> [type |-> "int", value |-> MinImageCount - 1],
                aspect_ratio |-> "3:2"]

\* the bodies posted: the valid one with at most one field changed, the
\* all-wrong one, and the all-wrong one with image_count sent as a string
RequestData ==
    {d \in AllRequestData :
        Cardinality({f \in RequiredFields : d[f] # ValidData[f]})
            + (IF d.missing # {} THEN 1 ELSE 0) <= 1}
      \cup {InvalidData,
             [InvalidData EXCEPT !.image_count.type = "str"]}

\* str.lower() on the styles sent
Lower(style) == IF style = "NOIR" THEN "noir" ELSE style

\* InputValidator.validate_story_input
validate_story_input(story) ==
    ~ ( \/ story.len = 0 \/ story.stripped = 0
        \/ story.stripped < MinStoryLength
        \/ story.len > MaxStoryLength )

\* valid_styles, valid_ratios
ValidStyles ==
    {"cinematic", "artistic", "realistic", "dark_moody", "vintage", "modern",
     "noir", "fantasy", "sci_fi"}
ValidRatios == {"16:9", "2.35:1", "4:3", "1:1", "9:16"}

\* InputValidator.validate_style
validate_style(style) == Lower(style) \in ValidStyles

\* InputValidator.validate_image_count: comparing a str with an int raises
validate_image_count(count) ==
    IF count.type # "int" THEN "TypeError"
    ELSE IF MinImageCount <= count.value /\ count.value <= MaxImageCount
         THEN "True" ELSE "False"

\* InputValidator.validate_aspect_ratio
validate_aspect_ratio(ratio) == ratio \in ValidRatios

\* APIValidator.validate_moodboard_request: "valid", "invalid", or the
\* exception that leaves it
validate_moodboard_request(data) ==
    IF data.missing # {} THEN "invalid"
    ELSE IF validate_image_count(data.image_count) = "TypeError"
         THEN "TypeError"
    ELSE IF /\ validate_story_input(data.story)
            /\ validate_style(data.style)
            /\ validate_image_count(data.image_count) = "True"
            /\ validate_aspect_ratio(data.aspect_ratio)
         THEN "valid"
    ELSE "invalid"

\* The body of a PUT: the fields it carries and their values.
UpdateFields == {"user_id", "status", "images"}
UpdateBodies ==
    {[fields |-> {}, user_id |-> "none", status |-> "none", images |-> <<>>],
     [fields |-> {"status"}, user_id |-> "none", status |-> "archived",
      images |-> <<>>],
     [fields |-> {"images"}, user_id |-> "none", status |-> "none",
      images |-> <<"image1">>]}
      \cup {[fields |-> {"user_id"}, user_id |-> u, status |-> "none",
              images |-> <<>>] : u \in Users}

\* doc_ref.update({**data, 'updated_at': ...}): each field sent is written
UpdatedDocument(doc, body) ==
    [user_id |-> IF "user_id" \in body.fields THEN body.user_id
                 ELSE doc.user_id,
     status |-> IF "status" \in body.fields THEN body.status ELSE doc.status,
     images |-> IF "images" \in body.fields THEN body.images ELSE doc.images]

\* mutant: the identity is dropped, the flag stays
logout_user_KeepsFlag(s) == [s EXCEPT !.user_id = "none"]

\* AuthManager.logout_user: session.clear()
logout_user(s) == NoSession

\* AuthManager.is_authenticated: session.get('authenticated', False)
is_authenticated(s) == s.authenticated

\* AuthManager.login_user: the session once verify_id_token returned a user
login_user(s, uid) == [authenticated |-> TRUE, user_id |-> uid]

\* get_current_user()['uid']
CurrentUid == session.user_id

\* mutant: the ownership test is left out
Owns_Anyone(doc, uid) == TRUE

\* if moodboard['user_id'] != user['uid']: 403
Owns(doc, uid) == doc.user_id = uid

\* mutant: a store operation that raised is tried once more
StoreAttempts_RetryOnce(ok) == IF ok THEN 1 ELSE 2

\* how often a FirebaseService method issues its Firestore call, whether
\* it returns or raises
StoreAttempts(ok) == 1

\* store operations attempted while handling one request
NoAttempts == [get |-> 0, create |-> 0, update |-> 0, delete |-> 0]

NoExchange ==
    [endpoint |-> "none", id |-> 0, status |-> 0, ran |-> FALSE,
     text_calls |-> 0, image_calls |-> 0, attempts |-> NoAttempts,
     raised |-> FALSE, body |-> "none", data |-> NoData, fields |-> {},
     text_failed |-> "none", prompts |-> "none", error |-> "none"]

\* the answer of require_auth itself: ({'error': ...}, 401), handler not run
Unauthorized(endpoint, id) ==
    [NoExchange EXCEPT !.endpoint = endpoint, !.id = id, !.status = 401]

\* an answer of the wrapped handler
Answer(endpoint, id, status) ==
    [NoExchange EXCEPT !.endpoint = endpoint, !.id = id, !.status = status,
                       !.ran = TRUE]

\* the id Firestore gives the next document added
FreshIds == {id \in BoardIds : created_by[id] = "none"}
NextId == CHOOSE id \in FreshIds : \A other \in FreshIds : id <= other

\* the API as the application starts: nobody logged in, empty collection
ApiAtRest ==
    /\ requests = {ValidData}
    /\ session = NoSession
    /\ store = [id \in BoardIds |-> NoBoard]
    /\ created_by = [id \in BoardIds |-> "none"]
    /\ created_images = [id \in BoardIds |-> <<>>]
    /\ logged_out = FALSE
    /\ last = NoExchange

----------------------------------------------------------------------------
(* Rate limiter and cache: data *)

Keys == {"10.0.0.1", "10.0.0.2"}

Policies == [limit : 1 .. MaxLimit, window : 1 .. MaxWindow]

NoVerdict == [key |-> "none", allowed |-> FALSE, status |-> 0, ran |-> FALSE,
              at |-> 0, inside |-> 0]

\* [req_time for req_time in requests if req_time > cutoff_time]
RECURSIVE Newer(_, _)
Newer(stamps, cutoff_time) ==
    IF stamps = <<>> THEN <<>>
    ELSE IF Head(stamps) > cutoff_time
         THEN <<Head(stamps)>> \o Newer(Tail(stamps), cutoff_time)
         ELSE Newer(Tail(stamps), cutoff_time)

\* if current_time - self.last_cleanup > self.cleanup_interval
CleanupDue(current_time) == current_time - last_cleanup > cleanup_interval

\* _cleanup_old_entries(current_time, window): every key's list is cut at
\* current_time - window; a key left with an empty list is deleted, which
\* reads the same as an empty list afterwards
CleanedUp(reqs, current_time, window) ==
    [k \in Keys |-> Newer(reqs[k], current_time - window)]

\* if len(self.requests[key]) >= limit: return False
LimitReached(stamps, limit) == Len(stamps) >= limit

\* mutant: the timestamp is appended before the limit is tested
Recorded_Always(pruned, allowed, current_time) ==
    Append(pruned, current_time)

\* the key's list when is_allowed returns: current_time is appended only
\* on the way to return True
Recorded(pruned, allowed, current_time) ==
    IF allowed THEN Append(pruned, current_time) ELSE pruned

CacheKeys == {"concept", "prompts"}
CacheValues == {"v1", "v2"}

\* key not in self.cache / key not in self.ttl
Absent == "absent"
NoExpiry == -1

NeverSet == [value |-> Absent, expiry |-> NoExpiry, live |-> FALSE]

NoCacheOp == [op |-> "none", key |-> "none", result |-> "none", at |-> 0,
              value |-> Absent, ttl |-> 0]

\* mutant: an entry never counts as expired
Expired_Never(current_time, expiry) == FALSE

\* time.time() > self.ttl[key]
Expired(current_time, expiry) == current_time > expiry

\* rate limiter and cache as constructed at import time
UtilsAtRest ==
    /\ now = 0
    /\ policies = [k \in Keys |-> [limit |-> 1, window |-> 1]]
    /\ limiter_requests = [k \in Keys |-> <<>>]
    /\ last_cleanup = 0
    /\ granted = [k \in Keys |-> <<>>]
    /\ verdict = NoVerdict
    /\ cache = [k \in CacheKeys |-> Absent]
    /\ ttl = [k \in CacheKeys |-> NoExpiry]
    /\ last_set = [k \in CacheKeys |-> NeverSet]
    /\ cache_last = NoCacheOp

----------------------------------------------------------------------------
(* Usage ledger: data *)

ServiceTypes == {"image_generation", "text_generation"}

\* self.pricing, in thousandths of a dollar
Pricing == [s \in ServiceTypes |->
              IF s = "text_generation" THEN 1 ELSE 40]

RetentionSeconds == SecondsPerDay * RetentionDays

\* time.time() at a call: the whole second, and the position of the call
\* within the sequence of calls, which tells two readings of one second apart
TimeStamp(calls_before) == [sec |-> now, frac |-> calls_before]

\* int(record.timestamp)
WholeSecond(timestamp) == timestamp.sec

\* a.timestamp < b.timestamp
Earlier(a, b) ==
    \/ a.timestamp.sec < b.timestamp.sec
    \/ a.timestamp.sec = b.timestamp.sec
         /\ a.timestamp.frac < b.timestamp.frac

\* f"usage:{user_id}:{int(record.timestamp)}"
UsageKey(record) == <<record.user_id, WholeSecond(record.timestamp)>>

\* keys(f"usage:{user_id}:*") over the keys Redis has not expired
RedisKeys(user_id) ==
    {e \in redis_data : e.key[1] = user_id /\ e.expires > now}

\* setex(key, seconds, value)
Setex(data, key, seconds, value) ==
    {e \in data : e.key # key}
        \cup {[key |-> key, value |-> value, expires |-> now + seconds]}

\* record.timestamp >= cutoff, the cutoff a whole second
NotBefore(record, cutoff_time) == record.timestamp.sec >= cutoff_time

RECURSIVE Recent(_, _)
Recent(records, cutoff_time) ==
    IF records = <<>> THEN <<>>
    ELSE IF NotBefore(Head(records), cutoff_time)
         THEN <<Head(records)>> \o Recent(Tail(records), cutoff_time)
         ELSE Recent(Tail(records), cutoff_time)

\* the order in which keys() lists a set of entries
RECURSIVE Listed(_)
Listed(entries) ==
    IF entries = {} THEN <<>>
    ELSE LET e == CHOOSE x \in entries : TRUE
         IN <<e.value>> \o Listed(entries \ {e})

\* sorted(records, key=lambda x: x['timestamp'], reverse=True)
RECURSIVE InsertNewestFirst(_, _)
InsertNewestFirst(record, sorted) ==
    IF sorted = <<>> THEN <<record>>
    ELSE IF Earlier(Head(sorted), record)
         THEN <<record>> \o sorted
         ELSE <<Head(sorted)>> \o InsertNewestFirst(record, Tail(sorted))

RECURSIVE NewestFirst(_)
NewestFirst(records) ==
    IF records = <<>> THEN <<>>
    ELSE InsertNewestFirst(Head(records), NewestFirst(Tail(records)))

\* UsageTracker.get_user_usage(user_id), days = 30
get_user_usage(user_id) ==
    LET cutoff_time == now - RetentionSeconds
    IN IF redis_client = "redis"
       THEN NewestFirst(Recent(Listed(RedisKeys(user_id)), cutoff_time))
       ELSE NewestFirst(Recent(memory_store[user_id], cutoff_time))

NoLedgerOp == [op |-> "none", user_id |-> "none", result |-> <<>>, at |-> 0]

\* a tracker with nothing tracked, on the in-memory store
LedgerAtRest ==
    /\ redis_client = "None"
    /\ redis_data = {}
    /\ memory_store = [u \in Users |-> <<>>]
    /\ tracked = <<>>
    /\ usage_last = NoLedgerOp

\* rate_limits of rate_limit_check
RateLimits ==
    [e \in {"auth.api_login", "auth.api_register",
            "api.generate_moodboard", "api.create_project"} |->
        CASE e = "auth.api_login" -> [limit |-> 5, window |-> 300]
          [] e = "auth.api_register" -> [limit |-> 3, window |-> 300]
          [] e = "api.generate_moodboard" -> [limit |-> 10, window |-> 3600]
          [] e = "api.create_project" -> [limit |-> 20, window |-> 3600]]

LimitedEndpoints == DOMAIN RateLimits

\* request.remote_addr of the one client followed
ClientAddress == "10.0.0.1"

NoCheck == [key |-> "none", endpoint |-> "none", allowed |-> FALSE,
            status |-> 0, at |-> 0, inside |-> 0]

MiddlewareAtRest ==
    /\ passed = [k \in Keys |-> [e \in LimitedEndpoints |-> <<>>]]
    /\ checks = 0
    /\ checked = NoCheck

Threads == {"t1", "t2"}

NoLocals == [current_time |-> 0, filtered |-> <<>>]

ThreadsAtRest ==
    /\ thread_pc = [th \in Threads |-> "idle"]
    /\ thread_local = [th \in Threads |-> NoLocals]
    /\ thread_calls = 0
    /\ appended = <<>>

\* id(chat): one integer per chat object alive
ChatIds == 1 .. MaxSessions

\* a session id as a Python value: the int start-session returns, or the
\* str a URL path segment (or a JSON string) carries
IntId(k) == [type |-> "int", value |-> k]
StrId(k) == [type |-> "str", value |-> k]

\* <session_id> in '/end-session/<session_id>': Flask's default converter
\* hands the handler a str
PathSegment(k) == StrId(k)

\* the ids a client can put into a request: those issued and one never
\* issued, as a JSON number or as a JSON string
SentIds == {IntId(k) : k \in 0 .. MaxSessions}
               \cup {StrId(k) : k \in 0 .. MaxSessions}

\* not session_id: None, 0 and '' are falsy; the str of a number is not
Falsy(id) == id.type = "int" /\ id.value = 0

NoEdit == [op |-> "none", sent |-> IntId(0), status |-> 0, error |-> "none",
           model_calls |-> 0, live |-> FALSE, before |-> {}]

EditingAtRest ==
    /\ active_sessions = {}
    /\ issued = {}
    /\ ended = {}
    /\ edit_last = NoEdit

\* A line of the response is a sequence of tokens: a blank, a marker the
\* parser tests for or removes, or a word containing none of them.
Numbering == {"1.", "2.", "3.", "4.", "5."}

\* the lines a response is made of: empty, blank, heading, bullet,
\* numbered, padded with blanks, labelled, and made only of removed tokens
Lines ==
    {<<>>, <<" ">>, <<"#", "w">>, <<"*", "w">>, <<"w">>, <<"1.", "w">>,
     <<" ", "w", " ">>, <<"Prompt", "2.">>, <<"Image", "w">>,
     <<"w", "#">>}

NotParsed == <<[kind |-> "none", line |-> 0, text |-> <<>>, depth |-> 0]>>

RECURSIVE LStrip(_)
LStrip(line) ==
    IF line # <<>> /\ Head(line) = " " THEN LStrip(Tail(line)) ELSE line

RECURSIVE RStrip(_)
RStrip(line) ==
    IF line # <<>> /\ line[Len(line)] = " "
    THEN RStrip(SubSeq(line, 1, Len(line) - 1))
    ELSE line

\* line.strip()
Strip(line) == RStrip(LStrip(line))

\* line.startswith(marker)
StartsWith(line, marker) == line # <<>> /\ Head(line) = marker

\* line.replace(t, '') for every t of the set
RECURSIVE Without(_, _)
Without(line, removed) ==
    IF line = <<>> THEN <<>>
    ELSE IF Head(line) \in removed THEN Without(Tail(line), removed)
         ELSE <<Head(line)>> \o Without(Tail(line), removed)

\* the clean-up of a kept line: numbering, 'Image' and 'Prompt' removed,
\* then stripped
Cleaned(line) ==
    Strip(Without(Without(Without(line, Numbering), {"Image"}), {"Prompt"}))

\* if line and not line.startswith('#') and not line.startswith('*')
Kept(line) ==
    /\ line # <<>>
    /\ ~StartsWith(line, "#")
    /\ ~StartsWith(line, "*")

\* the for loop over the lines from position i on
RECURSIVE CollectPrompts(_, _)
CollectPrompts(lines, i) ==
    IF i > Len(lines) THEN <<>>
    ELSE LET line == Strip(lines[i])
         IN IF Kept(line) /\ Cleaned(line) # <<>>
            THEN <<[kind |-> "line", line |-> i, text |-> Cleaned(line),
                    depth |-> 0]>> \o CollectPrompts(lines, i + 1)
            ELSE CollectPrompts(lines, i + 1)

\* f"Additional moodboard image: {prompts[-1] if prompts else 'Visual
\* element for the story'}"
Additional(prompts) ==
    IF prompts = <<>>
    THEN [kind |-> "additional", line |-> 0,
          text |-> <<"Visual element for the story">>, depth |-> 1]
    ELSE [kind |-> "additional", line |-> prompts[Len(prompts)].line,
          text |-> prompts[Len(prompts)].text,
          depth |-> prompts[Len(prompts)].depth + 1]

\* mutant: nothing is added to a short list
Padded_Not(prompts, count) == prompts

\* while len(prompts) < expected_count: prompts.append(...)
RECURSIVE Padded(_, _)
Padded(prompts, count) ==
    IF Len(prompts) < count
    THEN Padded(Append(prompts, Additional(prompts)), count)
    ELSE prompts

\* prompts[:expected_count]
Truncated(prompts, count) ==
    SubSeq(prompts, 1, IF Len(prompts) < count THEN Len(prompts) ELSE count)

\* AIService._parse_image_prompts
_parse_image_prompts(lines, count) ==
    Truncated(Padded(CollectPrompts(lines, 1), count), count)

ParsingAtRest ==
    /\ response_text = <<<<>>>>
    /\ expected_count = 0
    /\ parsed = NotParsed

ServicesAtRest ==
    /\ LedgerAtRest
    /\ MiddlewareAtRest
    /\ ThreadsAtRest
    /\ EditingAtRest
    /\ ParsingAtRest

----------------------------------------------------------------------------
Init ==
    /\ flow \in Flows
    /\ n \in 1 .. MaxPrompts
    /\ backend = [i \in Slots |-> NanoBananaResults]
    /\ faults = {"network"}
    /\ provider \in ProviderNames
    /\ configured \in BOOLEAN
    \* new_project uses the Gemini model of AIService, whose constructor
    \* requires the key; generate_moodboard passes provider='openai'
    /\ flow = "new_project" => provider = "gemini" /\ configured
    /\ flow = "generate_moodboard" => provider = "openai"
    \* the endpoint's prompt list has the validated image_count entries, or
    \* the single message generate_image_prompts returns on an exception
    /\ flow = "generate_moodboard" => n = 1 \/ n >= MinImageCount
    /\ task = [i \in Slots |-> "none"]
    /\ outcome = [i \in Slots |-> NoResult]
    /\ results = <<>>
    /\ arrival = <<>>
    /\ images = <<>>
    /\ calls = [i \in Slots |-> 0]
    /\ i_seq = 0
    /\ warning = FALSE
    /\ response = "none"
    /\ pc = "start"
    /\ errors = {}
    /\ escaped = {}
    /\ run = 1
    /\ first = NoFirst
    /\ ApiAtRest
    /\ UtilsAtRest
    /\ ServicesAtRest

(* ---- new_project ---- *)

\* executor.submit(generate_single_image, i, prompt) for every prompt
CanSubmit == flow = "new_project" /\ pc = "start"

Submit ==
    /\ CanSubmit
    /\ task' = [i \in Slots |-> IF i < n THEN "queued" ELSE "none"]
    /\ pc' = "collect"
    /\ UNCHANGED <<inputs, twice, elsewhere, faultvars, arrival, outcome, results, images, calls, i_seq,
                   warning, response>>

\* a pool worker takes the next work item and issues the provider request
CanStartCall(i) ==
    /\ flow = "new_project" /\ pc = "collect"
    /\ i \in Prompts
    /\ QueueHead(i)
    /\ WorkerAvailable

StartCall(i) ==
    /\ CanStartCall(i)
    /\ task' = [task EXCEPT ![i] = "running"]
    /\ calls' = [calls EXCEPT ![i] = @ + 1]
    /\ UNCHANGED <<inputs, twice, elsewhere, faultvars, arrival, outcome, results, images, i_seq, warning,
                   response, pc>>

\* generate_image_with_nano_banana returns; generate_single_image returns
\* (index, prompt, result)
CanFinishCall(i) ==
    /\ flow = "new_project" /\ pc = "collect"
    /\ i \in Prompts
    /\ task[i] = "running"
    /\ backend[i] # {}

FinishCall(i) ==
    /\ CanFinishCall(i)
    /\ \E r \in backend[i] :
          /\ outcome' = [outcome EXCEPT ![i] = r]
          /\ task' = [task EXCEPT ![i] = FinishedStatus(r)]
          \* success False is what the except clause of
          \* generate_image_with_nano_banana returns
          /\ IF r.success
             THEN UNCHANGED faultvars
             ELSE \E e \in faults :
                     /\ errors' = errors \cup {e}
                     /\ escaped' = IF ExceptException(e) THEN escaped
                                   ELSE escaped \cup
                                            {"generate_image_with_nano_banana"}
    /\ UNCHANGED <<inputs, twice, elsewhere, arrival, results, images, calls, i_seq, warning,
                   response, pc>>

\* for future in as_completed(...): results.append(future.result())
CanCollect(i) ==
    /\ flow = "new_project" /\ pc = "collect"
    /\ i \in Prompts
    /\ task[i] = "done"

Collect(i) ==
    /\ CanCollect(i)
    /\ results' = Append(results, [index |-> i, result |-> outcome[i]])
    /\ task' = [task EXCEPT ![i] = "collected"]
    /\ UNCHANGED <<inputs, twice, elsewhere, faultvars, arrival, outcome, images, calls, i_seq, warning,
                   response, pc>>

\* results.sort(key=lambda x: x[0])
CanSortResults ==
    /\ flow = "new_project" /\ pc = "collect"
    /\ AllCollected

SortResults ==
    /\ CanSortResults
    /\ results' = SortResultsList(results)
    /\ arrival' = results
    /\ pc' = "process"
    /\ UNCHANGED <<inputs, twice, elsewhere, faultvars, task, outcome, images, calls, i_seq, warning,
                   response>>

\* the loop over the sorted results
CanAssemble == flow = "new_project" /\ pc = "process"

Assemble ==
    /\ CanAssemble
    /\ images' = ProcessResults(<<>>, results)
    /\ pc' = "fallback"
    /\ UNCHANGED <<inputs, twice, elsewhere, faultvars, arrival, task, outcome, results, calls, i_seq,
                   warning, response>>

\* if not images: flash warning, demo images; then redirect to the results
CanFinish == flow = "new_project" /\ pc = "fallback"

Finish ==
    /\ CanFinish
    /\ IF NeedsFallback(images)
       THEN images' = DemoImages /\ warning' = TRUE
       ELSE UNCHANGED <<images, warning>>
    /\ response' = "redirect"
    /\ pc' = "done"
    /\ UNCHANGED <<inputs, twice, elsewhere, faultvars, arrival, task, outcome, results, calls, i_seq>>

\* moodboard_data as new_project builds it from the finished image list
ProjectMoodboardData ==
    [image_count |-> Len(images), images |-> images, status |-> "completed"]

(* ---- generate_images and generate_moodboard ---- *)

\* generate_images dispatches on the provider name; an unsupported name or
\* a missing key raises before the loop and the except returns []
Dispatch ==
    /\ flow \in {"generate_images", "generate_moodboard"} /\ pc = "start"
    /\ pc' = IF DispatchError = "none" THEN "loop" ELSE "returned"
    /\ IF DispatchError = "none"
       THEN UNCHANGED faultvars
       ELSE /\ errors' = errors \cup {DispatchError}
            /\ escaped' = IF ExceptException(DispatchError) THEN escaped
                          ELSE escaped \cup {"generate_images"}
    /\ UNCHANGED <<inputs, twice, elsewhere, arrival, task, outcome, results, images, calls,
                   i_seq, warning, response>>

\* one iteration of for i, prompt in enumerate(prompts)
SeqCall ==
    /\ flow \in {"generate_images", "generate_moodboard"} /\ pc = "loop"
    /\ i_seq < n
    /\ calls' = [calls EXCEPT ![i_seq] = @ + 1]
    /\ \E r \in SeqResults :
          /\ outcome' = [outcome EXCEPT ![i_seq] = r]
          /\ IF r.success
             THEN /\ images' = Append(images, [prompt |-> i_seq,
                                               index |-> i_seq,
                                               provider |-> ProviderTag(provider)])
                  /\ i_seq' = i_seq + 1
                  /\ UNCHANGED faultvars
             \* the request raised: the except clause inside the loop logs
             \* and continues; an exception it did not catch would leave
             \* the loop and meet the enclosing except clauses
             ELSE \E e \in faults :
                     /\ errors' = errors \cup {e}
                     /\ IF ExceptException(e)
                        THEN /\ images' = images
                             /\ i_seq' = IF SeqContinues(r) THEN i_seq + 1
                                         ELSE n
                             /\ escaped' = escaped
                        ELSE /\ images' = <<>>
                             /\ i_seq' = n
                             /\ escaped' = escaped \cup {"generate_images"}
    /\ UNCHANGED <<inputs, twice, elsewhere, arrival, task, results, warning, response, pc>>

\* return images
SeqReturn ==
    /\ flow \in {"generate_images", "generate_moodboard"} /\ pc = "loop"
    /\ i_seq >= n
    /\ pc' = "returned"
    /\ UNCHANGED <<inputs, twice, elsewhere, faultvars, arrival, task, outcome, results, images, calls,
                   i_seq, warning, response>>

\* generate_images hands its list to a direct caller
ServiceDone ==
    /\ flow = "generate_images" /\ pc = "returned"
    /\ response' = IF "generate_images" \in escaped THEN "raised" ELSE "list"
    /\ pc' = "done"
    /\ UNCHANGED <<inputs, twice, elsewhere, faultvars, arrival, task, outcome, results, images, calls,
                   i_seq, warning>>

\* generate_moodboard: if not images: 500, else save and answer success
EndpointDone ==
    /\ flow = "generate_moodboard" /\ pc = "returned"
    \* an exception out of generate_images meets the endpoint's own except
    /\ response' = IF "generate_images" \in escaped \/ images = <<>>
                   THEN "500" ELSE "200"
    /\ pc' = "done"
    /\ UNCHANGED <<inputs, twice, elsewhere, faultvars, arrival, task, outcome, results, images, calls,
                   i_seq, warning>>

Next ==
    \/ Submit
    \/ \E i \in Slots : StartCall(i)
    \/ \E i \in Slots : FinishCall(i)
    \/ \E i \in Slots : Collect(i)
    \/ SortResults
    \/ Assemble
    \/ Finish
    \/ Dispatch
    \/ SeqCall
    \/ SeqReturn
    \/ ServiceDone
    \/ EndpointDone

Spec == Init /\ [][Next]_vars

(* ---- the thread-pool block alone, on longer prompt lists ---- *)

\* a backend that answers each request with one image or with an error
TwoAnswerBackend ==
    {[success |-> FALSE, images |-> 0], [success |-> TRUE, images |-> 1]}

InitPool ==
    /\ flow = "new_project"
    /\ n \in 1 .. MaxPoolPrompts
    /\ backend = [i \in Slots |-> TwoAnswerBackend]
    /\ faults = {"network"}
    /\ provider = "gemini"
    /\ configured = TRUE
    /\ task = [i \in Slots |-> "none"]
    /\ outcome = [i \in Slots |-> NoResult]
    /\ results = <<>>
    /\ arrival = <<>>
    /\ images = <<>>
    /\ calls = [i \in Slots |-> 0]
    /\ i_seq = 0
    /\ warning = FALSE
    /\ response = "none"
    /\ pc = "start"
    /\ errors = {}
    /\ escaped = {}
    /\ run = 1
    /\ first = NoFirst
    /\ ApiAtRest
    /\ UtilsAtRest
    /\ ServicesAtRest

NextPool ==
    \/ Submit
    \/ \E i \in Slots : StartCall(i)
    \/ \E i \in Slots : FinishCall(i)
    \/ \E i \in Slots : Collect(i)
    \/ SortResults
    \/ Assemble
    \/ Finish

SpecPool == InitPool /\ [][NextPool]_vars

(* ---- every flow, each failing request raising any kind of exception ---- *)

InitFaults ==
    /\ flow \in Flows
    /\ n \in 1 .. MaxFaultPrompts
    /\ backend = [i \in Slots |-> NanoBananaResults]
    /\ faults = ProviderErrors
    /\ provider \in ProviderNames
    /\ configured \in BOOLEAN
    /\ flow = "new_project" => provider = "gemini" /\ configured
    /\ flow = "generate_moodboard" => provider = "openai"
    /\ flow = "generate_moodboard" => n = 1 \/ n >= MinImageCount
    /\ task = [i \in Slots |-> "none"]
    /\ outcome = [i \in Slots |-> NoResult]
    /\ results = <<>>
    /\ arrival = <<>>
    /\ images = <<>>
    /\ calls = [i \in Slots |-> 0]
    /\ i_seq = 0
    /\ warning = FALSE
    /\ response = "none"
    /\ pc = "start"
    /\ errors = {}
    /\ escaped = {}
    /\ run = 1
    /\ first = NoFirst
    /\ ApiAtRest
    /\ UtilsAtRest
    /\ ServicesAtRest

SpecFaults == InitFaults /\ [][Next]_vars

(* ---- new_project called twice against a deterministic provider stub ---- *)

\* a stub answers the request for a given prompt the same way every time
DeterministicStubs ==
    {b \in [Slots -> {{r} : r \in TwoAnswerBackend}] :
        \A i \in Slots : i >= n => b[i] = {[success |-> FALSE, images |-> 0]}}

InitTwice ==
    /\ flow = "new_project"
    /\ n \in 1 .. MaxTwicePrompts
    /\ backend \in DeterministicStubs
    /\ faults = {"network"}
    /\ provider = "gemini"
    /\ configured = TRUE
    /\ task = [i \in Slots |-> "none"]
    /\ outcome = [i \in Slots |-> NoResult]
    /\ results = <<>>
    /\ arrival = <<>>
    /\ images = <<>>
    /\ calls = [i \in Slots |-> 0]
    /\ i_seq = 0
    /\ warning = FALSE
    /\ response = "none"
    /\ pc = "start"
    /\ errors = {}
    /\ escaped = {}
    /\ run = 1
    /\ first = NoFirst
    /\ ApiAtRest
    /\ UtilsAtRest
    /\ ServicesAtRest

\* the second POST of the same form: new_project starts again with fresh
\* locals; what the first call ended with is kept for comparison
Rerun ==
    /\ flow = "new_project" /\ pc = "done" /\ run = 1
    /\ first' = [images |-> images, produced |-> SlotPattern(images),
                 warning |-> warning, arrival |-> arrival]
    /\ run' = 2
    /\ task' = [i \in Slots |-> "none"]
    /\ outcome' = [i \in Slots |-> NoResult]
    /\ results' = <<>>
    /\ arrival' = <<>>
    /\ images' = <<>>
    /\ calls' = [i \in Slots |-> 0]
    /\ warning' = FALSE
    /\ response' = "none"
    /\ pc' = "start"
    /\ errors' = {}
    /\ escaped' = {}
    /\ UNCHANGED <<inputs, elsewhere, i_seq>>

NextTwice ==
    \/ NextPool
    \/ Rerun

SpecTwice == InitTwice /\ [][NextTwice]_vars

(* ---- the HTTP API: login, logout, generation, moodboard documents ---- *)

\* no image-generation flow is running
FlowsAtRest ==
    /\ flow = "none"
    /\ n = 0
    /\ backend = [i \in Slots |-> {}]
    /\ faults = {}
    /\ provider = "openai"
    /\ configured = TRUE
    /\ task = [i \in Slots |-> "none"]
    /\ outcome = [i \in Slots |-> NoResult]
    /\ results = <<>>
    /\ arrival = <<>>
    /\ images = <<>>
    /\ calls = [i \in Slots |-> 0]
    /\ i_seq = 0
    /\ warning = FALSE
    /\ response = "none"
    /\ pc = "idle"
    /\ errors = {}
    /\ escaped = {}
    /\ run = 1
    /\ first = NoFirst

\* POST /login: 400 without an id_token, 401 when verify_id_token returns
\* None, else the session is filled in
ApiLogin ==
    /\ \E token \in {"missing", "invalid"} \cup Users :
          IF token = "missing"
          THEN /\ last' = Answer("api_login", 0, 400)
               /\ UNCHANGED <<session, logged_out>>
          ELSE IF token = "invalid"
          THEN /\ last' = Answer("api_login", 0, 401)
               /\ UNCHANGED <<session, logged_out>>
          ELSE /\ session' = login_user(session, token)
               /\ logged_out' = FALSE
               /\ last' = Answer("api_login", 0, 200)
    /\ UNCHANGED <<requests, store, created_by, created_images, flowvars,
                   utilvars, servicevars>>

\* POST /logout, wrapped in require_auth
ApiLogout ==
    /\ IF ~is_authenticated(session)
       THEN /\ last' = Unauthorized("api_logout", 0)
            /\ UNCHANGED <<session, logged_out>>
       ELSE /\ session' = logout_user(session)
            /\ logged_out' = TRUE
            /\ last' = Answer("api_logout", 0, 200)
    /\ UNCHANGED <<requests, store, created_by, created_images, flowvars,
                   utilvars, servicevars>>

\* what the services answer while one generation request is handled
\* how the two text-model calls of a request end: both answer, or the
\* concept call raises, or the prompt call raises
TextOutcomes == {"ok", "concept_error", "prompt_error"}

\* AIService.generate_image_prompts: the parsed prompts, or on an exception
\* the one-element list [f"Error generating prompts: {e}"]
generate_image_prompts(text) ==
    IF text = "prompt_error" THEN "error_message" ELSE "prompts"

\* how the request ends once it has a prompt list
GenerationOutcomes == {"no_images", "store_error", "created"}

\* the images generate_images returns for the prompt list: one prompt, one
\* image at most
ImagesFor(prompts) ==
    IF prompts = "error_message" THEN <<"image0">> ELSE GeneratedImages

\* POST /generate-moodboard, wrapped in require_auth: validation, concept,
\* prompts, images, create_moodboard; the handler's except answers 500
GenerateMoodboard ==
    /\ \E data \in requests :
          LET ep == "generate_moodboard"
              sent(x) == [x EXCEPT !.data = data]
              validation == validate_moodboard_request(data)
          IN
          IF ~is_authenticated(session)
          THEN /\ last' = sent(Unauthorized(ep, 0))
               /\ UNCHANGED <<store, created_by, created_images>>
          ELSE IF validation = "TypeError"
          THEN /\ last' = sent([Answer(ep, 0, 500) EXCEPT
                                   !.error = "Moodboard generation failed"])
               /\ UNCHANGED <<store, created_by, created_images>>
          ELSE IF validation = "invalid"
          THEN /\ last' = sent(Answer(ep, 0, 400))
               /\ UNCHANGED <<store, created_by, created_images>>
          ELSE \E text \in TextOutcomes :
          IF text = "concept_error"
          THEN /\ last' = sent([Answer(ep, 0, 500) EXCEPT
                                   !.text_calls = 1,
                                   !.text_failed = "concept",
                                   !.error = "Failed to generate concept"])
               /\ UNCHANGED <<store, created_by, created_images>>
          ELSE \E served \in GenerationOutcomes :
          LET prompts == generate_image_prompts(text)
              called == [Answer(ep, 0, 500) EXCEPT
                           !.text_calls = 2, !.image_calls = 1,
                           !.text_failed = IF text = "prompt_error"
                                           THEN "prompts" ELSE "none",
                           !.prompts = prompts]
          IN
          IF served = "no_images"
          THEN /\ last' = sent([called EXCEPT
                                   !.error = "Failed to generate images"])
               /\ UNCHANGED <<store, created_by, created_images>>
          ELSE IF served = "store_error"
          THEN /\ last' = sent([called EXCEPT
                                   !.attempts.create = StoreAttempts(FALSE),
                                   !.raised = TRUE,
                                   !.error = "Moodboard generation failed"])
               /\ UNCHANGED <<store, created_by, created_images>>
          ELSE /\ FreshIds # {}
               /\ store' = [store EXCEPT ![NextId] =
                               [user_id |-> CurrentUid,
                                status |-> "completed",
                                images |-> ImagesFor(prompts)]]
               /\ created_by' = [created_by EXCEPT ![NextId] = CurrentUid]
               /\ created_images' =
                      [created_images EXCEPT ![NextId] = ImagesFor(prompts)]
               /\ last' = sent([called EXCEPT
                                   !.id = NextId, !.status = 200,
                                   !.attempts.create = StoreAttempts(TRUE),
                                   !.body = "record"])
    /\ UNCHANGED <<requests, session, logged_out, flowvars, utilvars, servicevars>>

\* GET /moodboard/<id>, wrapped in require_auth
GetMoodboard(id) ==
    /\ LET ep == "get_moodboard" IN
          IF ~is_authenticated(session)
          THEN last' = Unauthorized(ep, id)
          ELSE \E get_ok \in BOOLEAN :
          IF ~get_ok
          THEN last' = [Answer(ep, id, 500) EXCEPT
                           !.attempts.get = StoreAttempts(FALSE),
                           !.raised = TRUE]
          ELSE IF store[id] = NoBoard
          THEN last' = [Answer(ep, id, 404) EXCEPT
                              !.attempts.get = StoreAttempts(TRUE)]
          ELSE IF ~Owns(store[id], CurrentUid)
          THEN last' = [Answer(ep, id, 403) EXCEPT
                              !.attempts.get = StoreAttempts(TRUE)]
          ELSE last' = [Answer(ep, id, 200) EXCEPT
                           !.attempts.get = StoreAttempts(TRUE),
                           !.body = "record"]
    /\ UNCHANGED <<requests, session, store, created_by, created_images,
                   logged_out, flowvars, utilvars, servicevars>>

\* PUT /moodboard/<id>, wrapped in require_auth
UpdateMoodboard(id) ==
    /\ LET ep == "update_moodboard" IN
          IF ~is_authenticated(session)
          THEN last' = Unauthorized(ep, id) /\ store' = store
          ELSE \E data \in UpdateBodies :
          LET sent(x) == [x EXCEPT !.fields = data.fields] IN
          IF data.fields = {}
          THEN last' = sent(Answer(ep, id, 400)) /\ store' = store
          ELSE \E get_ok \in BOOLEAN :
          IF ~get_ok
          THEN /\ last' = sent([Answer(ep, id, 500) EXCEPT
                              !.attempts.get = StoreAttempts(FALSE),
                              !.raised = TRUE])
               /\ store' = store
          ELSE IF store[id] = NoBoard
          THEN /\ last' = sent([Answer(ep, id, 404) EXCEPT
                              !.attempts.get = StoreAttempts(TRUE)])
               /\ store' = store
          ELSE IF ~Owns(store[id], CurrentUid)
          THEN /\ last' = sent([Answer(ep, id, 403) EXCEPT
                              !.attempts.get = StoreAttempts(TRUE)])
               /\ store' = store
          ELSE \E update_ok \in BOOLEAN :
          IF ~update_ok
          THEN /\ last' = sent([Answer(ep, id, 500) EXCEPT
                              !.attempts.get = StoreAttempts(TRUE),
                              !.attempts.update = StoreAttempts(FALSE),
                              !.raised = TRUE])
               /\ store' = store
          ELSE /\ store' = [store EXCEPT ![id] = UpdatedDocument(@, data)]
               /\ last' = sent([Answer(ep, id, 200) EXCEPT
                              !.attempts.get = StoreAttempts(TRUE),
                              !.attempts.update = StoreAttempts(TRUE)])
    /\ UNCHANGED <<requests, session, created_by, created_images,
                   logged_out, flowvars, utilvars, servicevars>>

\* DELETE /moodboard/<id>, wrapped in require_auth
DeleteMoodboard(id) ==
    /\ LET ep == "delete_moodboard" IN
          IF ~is_authenticated(session)
          THEN last' = Unauthorized(ep, id) /\ store' = store
          ELSE \E get_ok \in BOOLEAN :
          IF ~get_ok
          THEN /\ last' = [Answer(ep, id, 500) EXCEPT
                              !.attempts.get = StoreAttempts(FALSE),
                              !.raised = TRUE]
               /\ store' = store
          ELSE IF store[id] = NoBoard
          THEN /\ last' = [Answer(ep, id, 404) EXCEPT
                              !.attempts.get = StoreAttempts(TRUE)]
               /\ store' = store
          ELSE IF ~Owns(store[id], CurrentUid)
          THEN /\ last' = [Answer(ep, id, 403) EXCEPT
                              !.attempts.get = StoreAttempts(TRUE)]
               /\ store' = store
          ELSE \E delete_ok \in BOOLEAN :
          IF ~delete_ok
          THEN /\ last' = [Answer(ep, id, 500) EXCEPT
                              !.attempts.get = StoreAttempts(TRUE),
                              !.attempts.delete = StoreAttempts(FALSE),
                              !.raised = TRUE]
               /\ store' = store
          ELSE /\ store' = [store EXCEPT ![id] = NoBoard]
               /\ last' = [Answer(ep, id, 200) EXCEPT
                              !.attempts.get = StoreAttempts(TRUE),
                              !.attempts.delete = StoreAttempts(TRUE)]
    /\ UNCHANGED <<requests, session, created_by, created_images,
                   logged_out, flowvars, utilvars, servicevars>>

\* POST /moodboard/<id>/edit: answers a mock edited image; no session
\* check, no store access
EditMoodboard(id) ==
    /\ \E edit_prompt \in BOOLEAN :
          last' = [Answer("edit_moodboard", id,
                          IF edit_prompt THEN 200 ELSE 400)
                     EXCEPT !.body = IF edit_prompt THEN "edited_image"
                                     ELSE "none"]
    /\ UNCHANGED <<requests, session, store, created_by, created_images,
                   logged_out, flowvars, utilvars, servicevars>>

\* POST /moodboard/<id>/refine: answers four mock refined images; no
\* session check, no store access
RefineMoodboard(id) ==
    /\ \E refine_prompt \in BOOLEAN :
          last' = [Answer("refine_moodboard", id,
                          IF refine_prompt THEN 200 ELSE 400)
                     EXCEPT !.body = IF refine_prompt THEN "refined_images"
                                     ELSE "none"]
    /\ UNCHANGED <<requests, session, store, created_by, created_images,
                   logged_out, flowvars, utilvars, servicevars>>

InitApi ==
    /\ FlowsAtRest
    /\ ApiAtRest
    /\ UtilsAtRest
    /\ ServicesAtRest

NextApi ==
    \/ ApiLogin
    \/ ApiLogout
    \/ GenerateMoodboard
    \/ \E id \in BoardIds : GetMoodboard(id)
    \/ \E id \in BoardIds : UpdateMoodboard(id)
    \/ \E id \in BoardIds : DeleteMoodboard(id)
    \/ \E id \in BoardIds : EditMoodboard(id)
    \/ \E id \in BoardIds : RefineMoodboard(id)

SpecApi == InitApi /\ [][NextApi]_vars

\* the generation endpoint alone, every request body posted
InitGenerate ==
    /\ FlowsAtRest
    /\ requests = RequestData
    /\ session = NoSession
    /\ store = [id \in BoardIds |-> NoBoard]
    /\ created_by = [id \in BoardIds |-> "none"]
    /\ created_images = [id \in BoardIds |-> <<>>]
    /\ logged_out = FALSE
    /\ last = NoExchange
    /\ UtilsAtRest
    /\ ServicesAtRest

NextGenerate ==
    \/ ApiLogin
    \/ ApiLogout
    \/ GenerateMoodboard

SpecGenerate == InitGenerate /\ [][NextGenerate]_vars

(* ---- the clock, the rate limiter, the cache ---- *)

\* a second passes
Tick ==
    /\ now % cleanup_interval < MaxTicks
    /\ now' = now + 1
    /\ UNCHANGED <<flowvars, apivars, limitervars, cachevars, servicevars>>

\* the process is idle for a whole cleanup interval
Jump ==
    /\ now \div cleanup_interval < MaxJumps
    /\ now' = now + cleanup_interval
    /\ UNCHANGED <<flowvars, apivars, limitervars, cachevars, servicevars>>

\* a request through rate_limit(limit, window): is_allowed (periodic
\* cleanup, prune, limit test, append), then 429 or the wrapped handler
RateLimitedRequest(key) ==
    LET limit == policies[key].limit
        window == policies[key].window
        current_time == now
        cleaned == IF CleanupDue(current_time)
                   THEN CleanedUp(limiter_requests, current_time, window)
                   ELSE limiter_requests
        pruned == Newer(cleaned[key], current_time - window)
        allowed == ~LimitReached(pruned, limit)
    IN
    /\ last_cleanup' = IF CleanupDue(current_time) THEN current_time
                       ELSE last_cleanup
    /\ limiter_requests' =
          [cleaned EXCEPT ![key] = Recorded(pruned, allowed, current_time)]
    /\ granted' = IF allowed
                  THEN [granted EXCEPT ![key] =
                          Append(Newer(@, current_time - window),
                                 current_time)]
                  ELSE granted
    /\ verdict' = [key |-> key, allowed |-> allowed,
                   status |-> IF allowed THEN 200 ELSE 429,
                   ran |-> allowed, at |-> current_time,
                   inside |-> Len(Newer(granted[key], current_time - window))]
    /\ UNCHANGED <<now, policies, flowvars, apivars, cachevars, servicevars>>

\* every key is used with one (limit, window) of its own
InitLimiter ==
    /\ FlowsAtRest
    /\ ApiAtRest
    /\ now = 0
    /\ policies \in [Keys -> Policies]
    /\ limiter_requests = [k \in Keys |-> <<>>]
    /\ last_cleanup = 0
    /\ granted = [k \in Keys |-> <<>>]
    /\ verdict = NoVerdict
    /\ cache = [k \in CacheKeys |-> Absent]
    /\ ttl = [k \in CacheKeys |-> NoExpiry]
    /\ last_set = [k \in CacheKeys |-> NeverSet]
    /\ cache_last = NoCacheOp
    /\ ServicesAtRest

NextLimiter ==
    \/ Tick
    \/ Jump
    \/ \E key \in Keys : RateLimitedRequest(key)

SpecLimiter == InitLimiter /\ [][NextLimiter]_vars

\* CacheManager.set
CacheSet(key, value, seconds) ==
    /\ cache' = [cache EXCEPT ![key] = value]
    /\ ttl' = [ttl EXCEPT ![key] = now + seconds]
    /\ last_set' = [last_set EXCEPT ![key] =
                       [value |-> value, expiry |-> now + seconds,
                        live |-> TRUE]]
    /\ cache_last' = [op |-> "set", key |-> key, result |-> "none",
                      at |-> now, value |-> value, ttl |-> seconds]
    /\ UNCHANGED <<now, flowvars, apivars, limitervars, servicevars>>

\* CacheManager.get: None for a key not cached; an expired key is deleted
\* and None returned; else the cached value
CacheGet(key) ==
    /\ IF cache[key] = Absent
       THEN /\ cache_last' = [NoCacheOp EXCEPT !.op = "get", !.key = key,
                                               !.result = "None", !.at = now]
            /\ UNCHANGED <<cache, ttl>>
       ELSE IF ttl[key] # NoExpiry /\ Expired(now, ttl[key])
       THEN /\ cache' = [cache EXCEPT ![key] = Absent]
            /\ ttl' = [ttl EXCEPT ![key] = NoExpiry]
            /\ cache_last' = [NoCacheOp EXCEPT !.op = "get", !.key = key,
                                               !.result = "None", !.at = now]
       ELSE /\ cache_last' = [NoCacheOp EXCEPT !.op = "get", !.key = key,
                                               !.result = cache[key],
                                               !.at = now]
            /\ UNCHANGED <<cache, ttl>>
    /\ UNCHANGED <<now, last_set, flowvars, apivars, limitervars,
                   servicevars>>

\* CacheManager.delete
CacheDelete(key) ==
    /\ cache' = [cache EXCEPT ![key] = Absent]
    /\ ttl' = [ttl EXCEPT ![key] = NoExpiry]
    /\ last_set' = [last_set EXCEPT ![key].live = FALSE]
    /\ cache_last' = [NoCacheOp EXCEPT !.op = "delete", !.key = key,
                                       !.at = now]
    /\ UNCHANGED <<now, flowvars, apivars, limitervars, servicevars>>

\* CacheManager.clear
CacheClear ==
    /\ cache' = [k \in CacheKeys |-> Absent]
    /\ ttl' = [k \in CacheKeys |-> NoExpiry]
    /\ last_set' = [k \in CacheKeys |-> [last_set[k] EXCEPT !.live = FALSE]]
    /\ cache_last' = [NoCacheOp EXCEPT !.op = "clear", !.at = now]
    /\ UNCHANGED <<now, flowvars, apivars, limitervars, servicevars>>

\* CacheManager.cleanup_expired
CacheCleanupExpired ==
    /\ cache' = [k \in CacheKeys |->
                    IF ttl[k] # NoExpiry /\ Expired(now, ttl[k]) THEN Absent
                    ELSE cache[k]]
    /\ ttl' = [k \in CacheKeys |->
                  IF ttl[k] # NoExpiry /\ Expired(now, ttl[k]) THEN NoExpiry
                  ELSE ttl[k]]
    /\ cache_last' = [NoCacheOp EXCEPT !.op = "cleanup_expired", !.at = now]
    /\ UNCHANGED <<now, last_set, flowvars, apivars, limitervars,
                   servicevars>>

InitCache ==
    /\ FlowsAtRest
    /\ ApiAtRest
    /\ UtilsAtRest
    /\ ServicesAtRest

NextCache ==
    \/ Tick
    \/ \E key \in CacheKeys, value \in CacheValues, seconds \in 0 .. MaxTtl :
          CacheSet(key, value, seconds)
    \/ \E key \in CacheKeys : CacheGet(key)
    \/ \E key \in CacheKeys : CacheDelete(key)
    \/ CacheClear
    \/ CacheCleanupExpired

SpecCache == InitCache /\ [][NextCache]_vars

(* ---- the usage ledger ---- *)

\* a whole retention window passes
Retire ==
    /\ now \div RetentionSeconds < MaxRetire
    /\ now' = now + RetentionSeconds
    /\ UNCHANGED <<flowvars, apivars, limitervars, cachevars, servicevars>>

\* UsageTracker.track_usage: the record is stored in Redis under the key
\* of its user and second, or appended to the user's list in memory; an
\* exception from Redis is logged and None returned
TrackUsage(user_id, service_type) ==
    LET record == [user_id |-> user_id, service_type |-> service_type,
                   timestamp |-> TimeStamp(Len(tracked)),
                   cost |-> Pricing[service_type]]
        returned == [op |-> "track_usage", user_id |-> user_id,
                     result |-> <<record>>, at |-> now]
    IN
    /\ Len(tracked) < MaxRecords
    /\ IF redis_client = "redis"
       THEN \E setex_ok \in BOOLEAN :
              IF setex_ok
              THEN /\ redis_data' = Setex(redis_data, UsageKey(record),
                                          RetentionSeconds, record)
                   /\ tracked' = Append(tracked, record)
                   /\ usage_last' = returned
              ELSE /\ usage_last' = [returned EXCEPT !.result = <<>>]
                   /\ UNCHANGED <<redis_data, tracked>>
       ELSE /\ memory_store' = [memory_store EXCEPT ![user_id] =
                                   Append(@, record)]
            /\ tracked' = Append(tracked, record)
            /\ usage_last' = returned
            /\ UNCHANGED redis_data
    /\ redis_client = "redis" => UNCHANGED memory_store
    /\ UNCHANGED <<redis_client, flowvars, apivars, utilvars, middlewarevars, threadvars,
                   editvars,
                   parsevars>>

\* UsageTracker.get_user_usage
GetUserUsage(user_id) ==
    /\ usage_last' = [op |-> "get_user_usage", user_id |-> user_id,
                      result |-> get_user_usage(user_id), at |-> now]
    /\ UNCHANGED <<redis_client, redis_data, memory_store, tracked,
                   flowvars, apivars, utilvars, middlewarevars, threadvars,
                   editvars,
                   parsevars>>

\* UsageTracker.cleanup_old_records, days = 30: nothing to do with Redis,
\* whose TTL expires the keys; in memory every list is cut at the cutoff
CleanupOldRecords ==
    /\ memory_store' =
          IF redis_client = "redis" THEN memory_store
          ELSE [u \in Users |->
                  Recent(memory_store[u], now - RetentionSeconds)]
    /\ usage_last' = [NoLedgerOp EXCEPT !.op = "cleanup_old_records",
                                        !.at = now]
    /\ UNCHANGED <<redis_client, redis_data, tracked,
                   flowvars, apivars, utilvars, middlewarevars, threadvars,
                   editvars,
                   parsevars>>

\* the tracker is constructed with Redis reachable or not
InitLedger ==
    /\ FlowsAtRest
    /\ ApiAtRest
    /\ UtilsAtRest
    /\ redis_client \in {"redis", "None"}
    /\ redis_data = {}
    /\ memory_store = [u \in Users |-> <<>>]
    /\ tracked = <<>>
    /\ usage_last = NoLedgerOp
    /\ MiddlewareAtRest
    /\ ThreadsAtRest
    /\ EditingAtRest
    /\ ParsingAtRest

NextLedger ==
    \/ Tick
    \/ Retire
    \/ \E user_id \in Users, service_type \in ServiceTypes :
          TrackUsage(user_id, service_type)
    \/ \E user_id \in Users : GetUserUsage(user_id)
    \/ CleanupOldRecords

SpecLedger == InitLedger /\ [][NextLedger]_vars

(* ---- rate_limit_middleware ---- *)

\* RateLimiter.is_allowed(key, limit, window) at current_time: the answer
\* and the timestamp lists it leaves behind
is_allowed(key, limit, window, current_time) ==
    LET cleaned == IF CleanupDue(current_time)
                   THEN CleanedUp(limiter_requests, current_time, window)
                   ELSE limiter_requests
        pruned == Newer(cleaned[key], current_time - window)
        allowed == ~LimitReached(pruned, limit)
    IN [allowed |-> allowed,
        requests |-> [cleaned EXCEPT ![key] =
                        Recorded(pruned, allowed, current_time)],
        last_cleanup |-> IF CleanupDue(current_time) THEN current_time
                         ELSE last_cleanup]

\* rate_limit_check before a request to a rate-limited endpoint: the
\* limiter is asked with the client address as key and the endpoint's
\* (limit, window); False is answered 429, True lets the request through
RateLimitCheck(key, endpoint) ==
    LET limit == RateLimits[endpoint].limit
        window == RateLimits[endpoint].window
        answer == is_allowed(key, limit, window, now)
        inside == Newer(passed[key][endpoint], now - window)
    IN
    /\ checks < MaxChecks
    /\ checks' = checks + 1
    /\ limiter_requests' = answer.requests
    /\ last_cleanup' = answer.last_cleanup
    /\ passed' = IF answer.allowed
                 THEN [passed EXCEPT ![key][endpoint] = Append(inside, now)]
                 ELSE passed
    /\ checked' = [key |-> key, endpoint |-> endpoint,
                   allowed |-> answer.allowed,
                   status |-> IF answer.allowed THEN 200 ELSE 429,
                   at |-> now, inside |-> Len(inside)]
    /\ UNCHANGED <<now, policies, granted, verdict, cachevars, flowvars,
                   apivars, ledgervars, threadvars, editvars,
                   parsevars>>

InitMiddleware ==
    /\ FlowsAtRest
    /\ ApiAtRest
    /\ UtilsAtRest
    /\ ServicesAtRest

NextMiddleware ==
    \/ Tick
    \/ Jump
    \/ \E endpoint \in LimitedEndpoints :
          RateLimitCheck(ClientAddress, endpoint)

SpecMiddleware == InitMiddleware /\ [][NextMiddleware]_vars

(* ---- two request threads calling is_allowed for one key ---- *)

\* The threads run is_allowed(ClientAddress, limit, window) statement by
\* statement; the clock stays inside the first cleanup interval, so the
\* periodic cleanup is never due.

\* current_time = time.time(); the key's list is created if missing
ThreadBegin(th) ==
    /\ thread_pc[th] = "idle"
    /\ thread_calls < MaxCalls
    /\ thread_calls' = thread_calls + 1
    /\ thread_local' = [thread_local EXCEPT ![th] =
                           [current_time |-> now, filtered |-> <<>>]]
    /\ thread_pc' = [thread_pc EXCEPT ![th] = "filter"]
    /\ UNCHANGED <<appended, flowvars, apivars, utilvars, ledgervars,
                   middlewarevars, editvars,
                   parsevars>>

\* the list comprehension over self.requests[key] is evaluated
ThreadFilter(th) ==
    /\ thread_pc[th] = "filter"
    /\ thread_local' =
          [thread_local EXCEPT ![th].filtered =
              Newer(limiter_requests[ClientAddress],
                    thread_local[th].current_time
                        - policies[ClientAddress].window)]
    /\ thread_pc' = [thread_pc EXCEPT ![th] = "store"]
    /\ UNCHANGED <<thread_calls, appended, flowvars, apivars, utilvars,
                   ledgervars, middlewarevars, editvars,
                   parsevars>>

\* its result is assigned to self.requests[key]
ThreadStore(th) ==
    /\ thread_pc[th] = "store"
    /\ limiter_requests' = [limiter_requests EXCEPT ![ClientAddress] =
                               thread_local[th].filtered]
    /\ thread_pc' = [thread_pc EXCEPT ![th] = "check"]
    /\ UNCHANGED <<thread_local, thread_calls, appended, now, policies,
                   last_cleanup, granted, verdict, cachevars, flowvars,
                   apivars, ledgervars, middlewarevars, editvars,
                   parsevars>>

\* if len(self.requests[key]) >= limit: return False
ThreadCheck(th) ==
    /\ thread_pc[th] = "check"
    /\ thread_pc' = [thread_pc EXCEPT ![th] =
                        IF LimitReached(limiter_requests[ClientAddress],
                                        policies[ClientAddress].limit)
                        THEN "idle" ELSE "append"]
    /\ UNCHANGED <<thread_local, thread_calls, appended, flowvars, apivars,
                   utilvars, ledgervars, middlewarevars, editvars,
                   parsevars>>

\* self.requests[key].append(current_time); return True
ThreadAppend(th) ==
    /\ thread_pc[th] = "append"
    /\ limiter_requests' = [limiter_requests EXCEPT ![ClientAddress] =
                               Append(@, thread_local[th].current_time)]
    /\ appended' = Append(appended, thread_local[th].current_time)
    /\ thread_pc' = [thread_pc EXCEPT ![th] = "idle"]
    /\ UNCHANGED <<thread_local, thread_calls, now, policies, last_cleanup,
                   granted, verdict, cachevars, flowvars, apivars,
                   ledgervars, middlewarevars, editvars,
                   parsevars>>

\* both threads serve the same client under one (limit, window)
InitThreads ==
    /\ FlowsAtRest
    /\ ApiAtRest
    /\ now = 0
    /\ \E policy \in Policies : policies = [k \in Keys |-> policy]
    /\ limiter_requests = [k \in Keys |-> <<>>]
    /\ last_cleanup = 0
    /\ granted = [k \in Keys |-> <<>>]
    /\ verdict = NoVerdict
    /\ cache = [k \in CacheKeys |-> Absent]
    /\ ttl = [k \in CacheKeys |-> NoExpiry]
    /\ last_set = [k \in CacheKeys |-> NeverSet]
    /\ cache_last = NoCacheOp
    /\ ServicesAtRest

NextThreads ==
    \/ Tick
    \/ \E th \in Threads :
          \/ ThreadBegin(th)
          \/ ThreadFilter(th)
          \/ ThreadStore(th)
          \/ ThreadCheck(th)
          \/ ThreadAppend(th)

SpecThreads == InitThreads /\ [][NextThreads]_vars

(* ---- conversational editing sessions ---- *)

\* whether the session of this number was issued and no end-session
\* request has named it yet
Live(k) == IntId(k) \in issued /\ k \notin ended

\* POST /start-session: create_conversational_edit_session starts a chat
\* and returns id(chat), which becomes the key in active_sessions
StartEditingSession ==
    \E started \in BOOLEAN :
        /\ IF started
           THEN \E k \in ChatIds :
                  /\ IntId(k) \notin active_sessions
                  /\ k \notin ended
                  /\ active_sessions' = active_sessions \cup {IntId(k)}
                  /\ issued' = issued \cup {IntId(k)}
                  /\ edit_last' = [NoEdit EXCEPT !.op = "start",
                                                 !.sent = IntId(k),
                                                 !.status = 200,
                                                 !.model_calls = 1,
                                                 !.before = active_sessions]
           ELSE /\ edit_last' = [NoEdit EXCEPT !.op = "start",
                                               !.status = 500,
                                               !.error = "start_chat failed",
                                               !.model_calls = 1,
                                               !.before = active_sessions]
                /\ UNCHANGED <<active_sessions, issued>>
        /\ UNCHANGED <<ended, flowvars, apivars, utilvars, ledgervars,
                       middlewarevars, threadvars,
                   parsevars>>

\* POST /send-message with the session id the JSON body carries
SendEditMessage(session_id) ==
    LET asked == [NoEdit EXCEPT !.op = "send", !.sent = session_id,
                                !.live = Live(session_id.value),
                                !.before = active_sessions]
    IN
    /\ IF Falsy(session_id) \/ session_id \notin active_sessions
       THEN edit_last' = [asked EXCEPT !.status = 400,
                             !.error = "Invalid or expired session"]
       ELSE \E image_ok \in BOOLEAN, sent_ok \in BOOLEAN :
              IF ~image_ok
              THEN edit_last' = [asked EXCEPT !.status = 400,
                                    !.error = "Invalid image data"]
              ELSE IF sent_ok
              THEN edit_last' = [asked EXCEPT !.status = 200,
                                    !.model_calls = 1]
              ELSE edit_last' = [asked EXCEPT !.status = 500,
                                    !.error = "Failed to process message",
                                    !.model_calls = 1]
    /\ UNCHANGED <<active_sessions, issued, ended, flowvars, apivars,
                   utilvars, ledgervars, middlewarevars, threadvars,
                   parsevars>>

\* DELETE /end-session/<session_id> for the session of number k
EndEditingSession(k) ==
    LET session_id == PathSegment(k)
        asked == [NoEdit EXCEPT !.op = "end", !.sent = session_id,
                                !.live = Live(k),
                                !.before = active_sessions]
    IN
    /\ IF session_id \in active_sessions
       THEN /\ active_sessions' = active_sessions \ {session_id}
            /\ edit_last' = [asked EXCEPT !.status = 200]
       ELSE /\ edit_last' = [asked EXCEPT !.status = 404,
                                !.error = "Session not found"]
            /\ UNCHANGED active_sessions
    /\ ended' = IF IntId(k) \in issued THEN ended \cup {k} ELSE ended
    /\ UNCHANGED <<issued, flowvars, apivars, utilvars, ledgervars,
                   middlewarevars, threadvars,
                   parsevars>>

InitEditing ==
    /\ FlowsAtRest
    /\ ApiAtRest
    /\ UtilsAtRest
    /\ ServicesAtRest

NextEditing ==
    \/ StartEditingSession
    \/ \E session_id \in SentIds : SendEditMessage(session_id)
    \/ \E k \in 0 .. MaxSessions : EndEditingSession(k)

SpecEditing == InitEditing /\ [][NextEditing]_vars

(* ---- _parse_image_prompts ---- *)

\* response_text.split('\n') has one line at least
Responses ==
    UNION {[1 .. k -> Lines] : k \in 1 .. MaxLines}

ParseImagePrompts ==
    /\ parsed = NotParsed
    /\ parsed' = _parse_image_prompts(response_text, expected_count)
    /\ UNCHANGED <<response_text, expected_count, flowvars, apivars,
                   utilvars, ledgervars, middlewarevars, threadvars,
                   editvars>>

InitParse ==
    /\ FlowsAtRest
    /\ ApiAtRest
    /\ UtilsAtRest
    /\ LedgerAtRest
    /\ MiddlewareAtRest
    /\ ThreadsAtRest
    /\ EditingAtRest
    /\ response_text \in Responses
    /\ expected_count \in 0 .. MaxExpected
    /\ parsed = NotParsed

NextParse == ParseImagePrompts

SpecParse == InitParse /\ [][NextParse]_vars

\* the guards of NextPool's actions: some step of new_project can be taken
PoolCanStep ==
    \/ CanSubmit
    \/ \E i \in Slots : CanStartCall(i)
    \/ \E i \in Slots : CanFinishCall(i)
    \/ \E i \in Slots : CanCollect(i)
    \/ CanSortResults
    \/ CanAssemble
    \/ CanFinish

----------------------------------------------------------------------------
(* Properties *)

Done == pc = "done"
PoolDone == flow = "new_project" /\ pc = "done"
ImageSlots == 1 .. Len(images)
Generated(img) == img.provider # "demo"
OneImage == [success |-> TRUE, images |-> 1]
Failure == [success |-> FALSE, images |-> 0]
ImagesOfPrompt(i) == {k \in ImageSlots : images[k].prompt = i}
\* as_completed delivered the results in exactly the reverse of prompt order
ReverseArrival ==
    /\ Len(arrival) = n
    /\ \A k \in 1 .. n : arrival[k].index = n - k

\* C1: in new_project, whatever order as_completed delivered the results in,
\* the triples are processed in strictly ascending prompt index and the
\* images of the list stand in the order of their originating prompts.
C1_PromptOrder ==
    flow = "new_project" /\ pc \in {"process", "fallback", "done"} =>
        /\ \A a, b \in 1 .. Len(results) :
              a < b => results[a].index < results[b].index
        /\ \A a, b \in ImageSlots :
              a < b /\ Generated(images[a]) /\ Generated(images[b])
                  => images[a].prompt <= images[b].prompt

\* C1 witness: three or more results arrived in reverse order and the list
\* was assembled from them.
C1_Witness ==
    /\ PoolDone /\ n >= 3 /\ ReverseArrival
    /\ \A i \in Prompts : SlotProduced(outcome[i])

C3_FailedIndexOmitted ==
    \A f \in Prompts :
        ( /\ Done /\ n >= 2
          /\ calls[f] = 1 /\ outcome[f] = Failure
          /\ \A i \in Prompts \ {f} : outcome[i] = OneImage )
        => /\ Len(images) = n - 1
           /\ \A k \in ImageSlots :
                 images[k].index = images[k].prompt /\ images[k].index # f

\* C4 as stated, for the two request handlers and a full-size prompt list:
\* when every request of the pass failed, the caller is handed the
\* placeholder set: not an empty list, not an error response.
C4_PlaceholderOnTotalFailure ==
    ( /\ Done /\ flow \in {"new_project", "generate_moodboard"}
      /\ n >= MinImageCount
      /\ \A i \in Prompts : calls[i] = 1 /\ outcome[i] = Failure ) =>
        /\ images = DemoImages
        /\ images # <<>>
        /\ response # "500"

\* C5: at most max_workers provider requests are in flight at any moment.
C5_BoundedInFlight == Cardinality(RunningTasks) <= max_workers

\* C5 witness: the pool is full and a submitted request waits for a worker.
C5_Witness ==
    /\ Cardinality(RunningTasks) = max_workers
    /\ \E i \in Prompts : task[i] = "queued"

\* Steps new_project still has to take: three per queued request, two per
\* running one, one per finished but uncollected one, then sort, assembly
\* and return.
StepsLeft ==
    3 * Cardinality({i \in Prompts : task[i] = "queued"})
    + 2 * Cardinality(RunningTasks)
    + Cardinality({i \in Prompts : task[i] = "done"})
    + (CASE pc = "start" -> 3 * n + 4
         [] pc = "collect" -> 3
         [] pc = "process" -> 2
         [] pc = "fallback" -> 1
         [] OTHER -> 0)

\* C6: the collected results are sorted and read only after every submitted
\* request has completed and been collected, and no image or answer exists
\* while a request of the batch is in flight; the flow returns once every
\* request has returned: until it has returned some step can be taken, and
\* every step (a request starting, returning, being collected, the sort, the
\* assembly, the return) leaves fewer steps to take.
C6_JoinThenReturn ==
    /\ [](flow = "new_project" /\ pc \in {"process", "fallback", "done"} =>
             /\ \A i \in Prompts : task[i] = "collected"
             /\ Len(results) = n)
    /\ [](flow = "new_project" /\ (images # <<>> \/ response # "none") =>
             RunningTasks = {} /\ \A i \in Prompts : task[i] = "collected")
    /\ [](pc = "done" \/ PoolCanStep)
    /\ [][StepsLeft' < StepsLeft]_vars

\* C6 witness: a new_project pass of more prompts than workers has returned,
\* its last submitted request having been the first to be collected.
C6_Witness ==
    /\ PoolDone /\ n > max_workers /\ response = "redirect"
    /\ arrival[1].index = n - 1

\* C7: when requests of a pass fail, every prompt's request is still issued
\* once and answered, and each prompt whose request produced images has all
\* of them in the list; only the failed slots contribute nothing.
C7_FailureIsolated ==
    Done /\ (\E i \in Prompts : calls[i] > 0) =>
        \A i \in Prompts :
            /\ calls[i] = 1
            /\ outcome[i] # NoResult
            /\ Cardinality(ImagesOfPrompt(i)) =
                   IF SlotProduced(outcome[i]) THEN outcome[i].images ELSE 0

\* C7 witness: the first request failed and a later sibling's image is in
\* the returned list.
C7_Witness ==
    /\ PoolDone /\ n >= 3
    /\ outcome[0] = Failure
    /\ \E i \in Prompts : i > 0 /\ SlotProduced(outcome[i]) /\ ImagesOfPrompt(i) # {}
    /\ \E i \in Prompts : i > 1 /\ outcome[i] = Failure

\* C8: in every image list no two images share an index, and among generated
\* images one from a lower-numbered prompt has the lower index.
C8_UniqueOrderedIndex ==
    /\ \A a, b \in ImageSlots : a # b => images[a].index # images[b].index
    /\ \A a, b \in ImageSlots :
          Generated(images[a]) /\ Generated(images[b])
              /\ images[a].prompt < images[b].prompt
          => images[a].index < images[b].index

\* C8 witness: a list of three or more generated images, one response having
\* carried two, built from results delivered in reverse order.
C8_Witness ==
    /\ PoolDone /\ ~warning /\ Len(images) >= 3 /\ n >= 2
    /\ ReverseArrival
    /\ \E i \in Prompts : outcome[i].images = 2

\* C9: new_project substitutes the demo images and warns exactly when no
\* image was produced; with at least one produced slot the list holds only
\* generated images and no warning is flashed.
C9_FallbackOnlyWhenEmpty ==
    PoolDone =>
        LET produced == \E i \in Prompts : SlotProduced(outcome[i])
        IN  /\ warning <=> ~produced
            /\ images = DemoImages <=> ~produced
            /\ produced => \A k \in ImageSlots : Generated(images[k])

\* C9 witness: a single slot of a pass of several prompts produced an image.
C9_Witness ==
    /\ PoolDone /\ n >= 3 /\ ~warning
    /\ Len(images) = 1 /\ Generated(images[1])
    /\ \E i \in Prompts : outcome[i] = Failure

\* C10 as stated: a finished pass has issued exactly one request per prompt.
C10_Original ==
    Done => \A i \in Prompts : calls[i] = 1

\* C10 amended: no prompt is ever requested twice; a finished pass has issued
\* exactly one request per prompt when the provider is supported and
\* configured, and none otherwise.
C10_OneCallNoRetry ==
    /\ \A i \in Slots : calls[i] <= 1
    /\ Done =>
          \A i \in Prompts :
              calls[i] = IF provider \in SupportedProviders /\ configured
                         THEN 1 ELSE 0

\* C10 witness: a finished pass in which a request failed and every prompt
\* was requested once.
C10_Witness ==
    /\ Done /\ n >= 2
    /\ \E i \in Prompts : outcome[i] = Failure
    /\ \A i \in Prompts : calls[i] = 1

\* C11: when new_project is called twice with the same prompts against a
\* provider stub that answers each prompt the same way every time, the second
\* call ends with the same image list in the same order, the same set of
\* prompts having produced an image and the same fallback decision as the
\* first, whatever order the worker threads finished in during either call.
C11_SameOutputTwice ==
    run = 2 /\ PoolDone =>
        /\ images = first.images
        /\ SlotPattern(images) = first.produced
        /\ warning = first.warning

\* C11 witness: both calls have returned, three or more prompts with a failed
\* one among them, the results of the two calls having been delivered in
\* different orders.
C11_Witness ==
    /\ run = 2 /\ PoolDone /\ n >= 3
    /\ arrival # first.arrival
    /\ arrival[1].index # 0 /\ first.arrival[1].index = 0
    /\ \E i \in Prompts : outcome[i] = Failure
    /\ Len(images) >= 2 /\ ~warning

\* C12: whichever exception the provider level raises (quota, network,
\* malformed payload, missing API key, unsupported provider name), none
\* propagates out of generate_images or generate_image_with_nano_banana:
\* generate_images returns a list, empty when the provider name is
\* unsupported or the key is missing, and every finished call of
\* generate_image_with_nano_banana holds a result dict, with success False
\* and no image when the request raised.
C12_NoExceptionEscapes ==
    /\ escaped = {}
    /\ response # "raised"
    /\ flow = "generate_images" /\ pc = "done" =>
          /\ response = "list"
          /\ DispatchError # "none" => images = <<>> /\ DispatchError \in errors
    /\ \A i \in Prompts :
          flow = "new_project" /\ task[i] \in {"done", "collected"} =>
              /\ outcome[i] \in NanoBananaResults
              /\ ~outcome[i].success => outcome[i].images = 0 /\ errors # {}

\* C12 witness: generate_images has returned an empty list after requests
\* that raised a quota error, a network error and a malformed payload.
C12_Witness ==
    /\ flow = "generate_images" /\ pc = "done"
    /\ ProviderErrors \subseteq errors
    /\ response = "list" /\ images = <<>>

\* what fails validation: a missing field, a story shorter than 50 or longer
\* than 2000 characters, an unknown style, an image_count that is not a
\* number from 4 to 12, an unknown aspect ratio
FailsValidation(d) ==
    \/ d.missing # {}
    \/ d.story.stripped < MinStoryLength
    \/ d.story.len > MaxStoryLength
    \/ Lower(d.style) \notin ValidStyles
    \/ ~ ( /\ d.image_count.type = "int"
           /\ d.image_count.value \in MinImageCount .. MaxImageCount )
    \/ d.aspect_ratio \notin ValidRatios

ProtectedEndpoints ==
    {"api_logout", "generate_moodboard", "get_moodboard", "update_moodboard",
     "delete_moodboard"}

DocumentEndpoints == {"get_moodboard", "update_moodboard", "delete_moodboard"}

\* C13 as stated, for requests on an authenticated session: a
\* generate-moodboard request whose data fails validation is answered 400
\* and no text-model call, image-provider call or store operation is made
\* for it.
C13_InvalidRejected400 ==
    ( /\ last.endpoint = "generate_moodboard" /\ last.ran
      /\ FailsValidation(last.data) ) =>
        /\ last.status = 400
        /\ last.text_calls = 0 /\ last.image_calls = 0
        /\ last.attempts = NoAttempts

\* C14: a request to a require_auth endpoint on a session that is not
\* authenticated is answered 401, its handler does not run and neither
\* session nor store changes; once api_logout has succeeded the session is
\* not authenticated until a login succeeds, so every such request gets 401.
C14_UnauthenticatedGets401 ==
    /\ [](logged_out => ~session.authenticated)
    /\ [][ ( /\ ~session.authenticated
             /\ last'.endpoint \in ProtectedEndpoints ) =>
               /\ last'.status = 401 /\ ~last'.ran
               /\ last'.text_calls = 0 /\ last'.image_calls = 0
               /\ last'.attempts = NoAttempts /\ last'.body = "none"
               /\ session' = session /\ store' = store ]_vars

\* C14 witness: after a login, a generation and a logout, a read of the
\* created document on the same session was answered 401.
C14_Witness ==
    /\ logged_out /\ \E id \in BoardIds : store[id] # NoBoard
    /\ last.endpoint = "get_moodboard" /\ last.status = 401 /\ ~last.ran

C16_OwnerNeverChanges ==
    \A id \in BoardIds :
        store[id] # NoBoard =>
            /\ store[id].user_id \in Users
            /\ store[id].user_id = created_by[id]

\* C17 as stated: the images a moodboard was created with stay in its
\* images list, unmodified and in place; later entries are only appended.
C17_ImagesOnlyAppended ==
    \A id \in BoardIds :
        store[id] # NoBoard =>
            /\ Len(store[id].images) >= Len(created_images[id])
            /\ SubSeq(store[id].images, 1, Len(created_images[id]))
                   = created_images[id]

\* C18: while one request is handled each store operation is attempted at
\* most once; when one raises, it was attempted exactly once, the answer is
\* 500, no record content is returned and the store is unchanged.
C18_StoreFailureIs500 ==
    /\ [](\A op \in DOMAIN NoAttempts : last.attempts[op] <= 1)
    /\ [](last.raised =>
              /\ last.status = 500 /\ last.body = "none"
              /\ \E op \in DOMAIN NoAttempts : last.attempts[op] = 1)
    /\ [][last'.raised => store' = store]_vars

\* C18 witness: create_moodboard raised after the concept, the prompts and
\* the images had been produced; the request was answered 500 and the
\* collection is still empty.
C18_Witness ==
    /\ last.endpoint = "generate_moodboard" /\ last.raised
    /\ last.attempts.create = 1 /\ last.image_calls = 1
    /\ last.status = 500
    /\ \A id \in BoardIds : store[id] = NoBoard

----------------------------------------------------------------------------
(* Rate limiter and cache *)

\* C19: for every key, used with one fixed (limit, window), the calls
\* answered True inside any one window (cutoff excluded, as the code
\* compares) never number more than limit; a call that finds limit granted
\* timestamps inside its window is answered False, and a call answered
\* False gets 429 without the wrapped handler running.
C19_SlidingWindow ==
    /\ \A k \in Keys :
          Len(Newer(granted[k], now - policies[k].window))
              <= policies[k].limit
    /\ verdict.key # "none" =>
          /\ verdict.inside >= policies[verdict.key].limit
                => ~verdict.allowed
          /\ ~verdict.allowed => verdict.status = 429 /\ ~verdict.ran

\* C20: a get before or at the expiry of the latest set returns the value
\* set; a get after it returns None and leaves the key in neither map; a set
\* leaves the key with the value and the expiry of that set.
C20_TtlCache ==
    /\ cache_last.op = "get" /\ last_set[cache_last.key].live =>
          LET k == cache_last.key IN
          IF cache_last.at <= last_set[k].expiry
          THEN cache_last.result = last_set[k].value
          ELSE /\ cache_last.result = "None"
               /\ cache[k] = Absent
               /\ ttl[k] = NoExpiry
    /\ cache_last.op = "set" =>
          /\ cache[cache_last.key] = cache_last.value
          /\ ttl[cache_last.key] = cache_last.at + cache_last.ttl

\* a value set twice, the second set with another value and a later
\* expiry, has been read after that expiry and found gone
C20_Witness ==
    /\ cache_last.op = "get"
    /\ cache_last.result = "None"
    /\ last_set["concept"].live
    /\ cache_last.key = "concept"
    /\ last_set["concept"].value = "v2"
    /\ last_set["concept"].expiry = 2
    /\ cache_last.at = 3

----------------------------------------------------------------------------
(* Usage ledger *)

\* the records of a list
RecordsOf(records) == {records[i] : i \in 1 .. Len(records)}

\* the records returned for the user that are younger than the retention
\* window at time t
Retained(user_id, t) ==
    {r \in RecordsOf(tracked) :
        r.user_id = user_id /\ r.timestamp.sec > t - RetentionSeconds}

\* C21: every record track_usage returned stays retrievable, unchanged,
\* while it is younger than the retention window: get_user_usage returns
\* each such record of the user once and nothing that was not tracked for
\* the user, so k tracked records inside the window are k records returned.
C21_AppendOnlyLedger ==
    /\ \A u \in Users :
          LET got == get_user_usage(u) IN
          /\ Retained(u, now) \subseteq RecordsOf(got)
          /\ RecordsOf(got) \subseteq
                {r \in RecordsOf(tracked) : r.user_id = u}
          /\ Len(got) = Cardinality(RecordsOf(got))
    /\ usage_last.op = "get_user_usage" =>
          Len(usage_last.result)
              >= Cardinality(Retained(usage_last.user_id, usage_last.at))

----------------------------------------------------------------------------
(* Moodboard records *)

\* C22: every moodboard document in the store has status "prompts_generated"
\* or "completed".
C22_StatusValues ==
    \A id \in BoardIds :
        store[id] # NoBoard =>
            store[id].status \in {"prompts_generated", "completed"}

\* C23: the moodboard record new_project builds when it finishes has an
\* image_count between 4 and 12, whatever the provider calls answered.
C23_ImageCountInRange ==
    flow = "new_project" /\ pc = "done" =>
        ProjectMoodboardData.image_count \in MinImageCount .. MaxImageCount

----------------------------------------------------------------------------
(* rate_limit_middleware *)

\* C24: each rate-limited endpoint has its own allowance per client
\* address: a request is let through exactly when fewer than the endpoint's
\* limit of requests to that same endpoint from that address were let through
\* inside the endpoint's window, whatever was sent to the other endpoints.
C24_PerEndpointLimits ==
    checked.key # "none" =>
        /\ checked.allowed <=>
             checked.inside < RateLimits[checked.endpoint].limit
        /\ checked.status = IF checked.allowed THEN 200 ELSE 429

\* C25: with two threads inside is_allowed for one key, the timestamps
\* recorded for the key inside one window never number more than limit, and
\* every timestamp appended by a call answered True is still recorded while
\* it is inside the window.
C25_ConcurrentCalls ==
    LET cutoff_time == now - policies[ClientAddress].window
        recorded == Newer(limiter_requests[ClientAddress], cutoff_time)
    IN /\ Len(recorded) <= policies[ClientAddress].limit
       /\ Len(Newer(appended, cutoff_time)) <= Len(recorded)

\* C26: a call of is_allowed answered False leaves the key's list as it
\* was, less the timestamps older than the key's window, and records no
\* grant.
C26_RejectedRecordsNothing ==
    [][(now' = now /\ verdict'.key # "none" /\ ~verdict'.allowed) =>
          /\ limiter_requests'[verdict'.key] =
                Newer(limiter_requests[verdict'.key],
                      now - policies[verdict'.key].window)
          /\ granted' = granted]_vars

\* a call has just been answered False for a key whose list is full
C26_Witness ==
    /\ verdict.key \in Keys
    /\ ~verdict.allowed
    /\ verdict.at = now
    /\ Len(limiter_requests[verdict.key]) = policies[verdict.key].limit
    /\ policies[verdict.key].limit = MaxLimit

----------------------------------------------------------------------------
(* generate_moodboard: failures before the store *)

\* C27: when the text model fails while the image prompts are generated,
\* generate_moodboard answers 500 'Failed to generate image prompts' without
\* calling the image service or the store, and the error message is not
\* used as a prompt.
C27_PromptFailureIs500 ==
    last.endpoint = "generate_moodboard" /\ last.text_failed = "prompts" =>
        /\ last.status = 500
        /\ last.error = "Failed to generate image prompts"
        /\ last.image_calls = 0
        /\ last.attempts.create = 0
        /\ last.prompts # "error_message"

\* C28: a generation request calls create_moodboard at most once, and only
\* authenticated, with a valid body, after both text-model calls and the
\* image service have succeeded; a request that does not reach
\* create_moodboard leaves the store as it was.
C28_CreateOnlyAfterSuccess ==
    [][last'.endpoint = "generate_moodboard" =>
          /\ last'.attempts.create <= 1
          /\ last'.attempts.create = 1 =>
                /\ is_authenticated(session)
                /\ validate_moodboard_request(last'.data) = "valid"
                /\ last'.text_calls = 2
                /\ last'.text_failed = "none"
                /\ last'.image_calls = 1
          /\ last'.attempts.create = 0 =>
                /\ store' = store
                /\ last'.status \in {400, 401, 500}]_vars

----------------------------------------------------------------------------
(* Conversational editing sessions *)

\* C29: send-message accepts an id as start-session returned it until
\* end-session has been called with it; end-session with such an id answers
\* success and the id is no longer active; afterwards send-message with it is
\* answered 400 'Invalid or expired session' without a model call;
\* end-session for an id that is not active answers 404 and changes nothing.
C29_SessionLifecycle ==
    /\ edit_last.op = "send" /\ edit_last.live
          /\ edit_last.sent.type = "int" =>
          edit_last.error # "Invalid or expired session"
    /\ edit_last.op = "send" /\ ~edit_last.live =>
          /\ edit_last.status = 400
          /\ edit_last.error = "Invalid or expired session"
          /\ edit_last.model_calls = 0
    /\ edit_last.op = "end" /\ edit_last.live =>
          /\ edit_last.status = 200
          /\ IntId(edit_last.sent.value) \notin active_sessions
    /\ edit_last.op = "end" /\ ~edit_last.live =>
          /\ edit_last.status = 404
          /\ active_sessions = edit_last.before

----------------------------------------------------------------------------
(* _parse_image_prompts *)

\* the positions of the lines that are non-empty once stripped and start
\* with neither '#' nor '*'
MarkedIn(lines) == {i \in 1 .. Len(lines) : Kept(Strip(lines[i]))}

\* of those, the positions of the lines of which the clean-up leaves
\* something
RetainedIn(lines) ==
    {i \in MarkedIn(lines) : Cleaned(Strip(lines[i])) # <<>>}

\* the j-th smallest member of a set of positions
Nth(S, j) == CHOOSE i \in S : Cardinality({k \in S : k < i}) = j - 1

\* prompts is count entries long: the lines at the first positions of S in
\* order, then 'Additional moodboard image' entries
LinesThenAdditional(prompts, S, count) ==
    /\ Len(prompts) = count
    /\ \A j \in 1 .. count :
          IF j <= Cardinality(S)
          THEN prompts[j].kind = "line" /\ prompts[j].line = Nth(S, j)
          ELSE prompts[j].kind = "additional"

\* C30 as stated: the result has expected_count entries, the non-empty
\* lines starting with neither '#' nor '*' in order, cut at expected_count,
\* with 'Additional moodboard image' entries only when those lines are fewer.
C30_Original ==
    parsed # NotParsed =>
        LinesThenAdditional(parsed, MarkedIn(response_text), expected_count)

\* C30: the result has expected_count entries: the cleaned text of the
\* lines that are non-empty, start with neither '#' nor '*' and are not
\* emptied by the clean-up, in order and cut at expected_count, then
\* 'Additional moodboard image' entries when those lines are fewer.
C30_ExactCount ==
    parsed # NotParsed =>
        /\ LinesThenAdditional(parsed, RetainedIn(response_text),
                               expected_count)
        /\ \A j \in 1 .. Len(parsed) :
              parsed[j].kind = "line" =>
                  parsed[j].text = Cleaned(Strip(response_text[parsed[j].line]))

\* a response with a line the clean-up empties and fewer retained lines
\* than wanted has been parsed: a cleaned line first, additional entries last
C30_Witness ==
    /\ parsed # NotParsed
    /\ expected_count = MaxExpected
    /\ \E i \in 1 .. Len(response_text) : response_text[i] = <<"Prompt", "2.">>
    /\ \E i \in 1 .. Len(response_text) : response_text[i] = <<"1.", "w">>
    /\ parsed[1].kind = "line"
    /\ parsed[1].text = <<"w">>
    /\ parsed[expected_count].kind = "additional"
    /\ parsed[expected_count].depth = MaxExpected - 1

============================================================================
